---------------------------- MODULE Spec2Model ----------------------------
(***************************************************************************)
(* LumiNote annotation engine (src/sw.js, class LumiNote, second           *)
(* definition starting at line 1621): pointer handling, stroke capture,    *)
(* lasso selection, move/resize, eraser, the undo/redo history, the pages   *)
(* overview and the library of notebooks with its store.                   *)
(*                                                                         *)
(* Every handler of the class is an operator from the application state    *)
(* (a record with one field per object field) to the application state, so *)
(* that a handler which calls another one is the composition of the two.   *)
(* An action applies one handler to the current state.                     *)
(*                                                                         *)
(* Conventions.                                                            *)
(*  - A JavaScript value that may be null/undefined is a sequence of       *)
(*    length 0 (null) or 1 (the value).                                    *)
(*  - A stroke object carries `ref`, its heap identity.  JSON.stringify    *)
(*    drops it (Serialize) and JSON.parse allocates new objects (Parse),   *)
(*    so that Array.includes / === on strokes is comparison of refs.       *)
(*    Identity of the point objects inside a stroke is not modelled.       *)
(*  - `id` is the value of Date.now() + Math.random(): a clock that never  *)
(*    returns the same value twice (idClock).                              *)
(*  - Distances are compared through their squares; coordinates are        *)
(*    integers and the event sets are chosen so that the smoothing         *)
(*    blend 0.5*last + 0.5*raw stays integral.                             *)
(***************************************************************************)
EXTENDS Integers, Sequences, FiniteSets, TLC

VARIABLES
    tool, isDrawing, isLassoing, isMoving, isResizing,
    lineWidth, color, eraseEntireStroke, hasChanged,
    pages, currentPageIndex, currentStroke, lassoPath, selectedStrokes,
    moveStart, undoStack, redoStack, preInteractionState, lastCoords,
    activePointers, gestureMode, activeCanvas,
    scale, scroll, scrollStart, lastGestureDist, lastGestureCenter,
    clipboard, textInputs, imageLoads, idClock, laserTrail, frames, menuVisible,
    notebooks, activeNotebookId, openNotebookIds, store, autoSaveTimer,
    threw,
    lastOp, discarded, pressed, run, atDown, opener, mover, call, downLasso,
    sample, had, deleted

vars == << tool, isDrawing, isLassoing, isMoving, isResizing,
           lineWidth, color, eraseEntireStroke, hasChanged,
           pages, currentPageIndex, currentStroke, lassoPath, selectedStrokes,
           moveStart, undoStack, redoStack, preInteractionState, lastCoords,
           activePointers, gestureMode, activeCanvas,
           scale, scroll, scrollStart, lastGestureDist, lastGestureCenter,
           clipboard, textInputs, imageLoads, idClock, laserTrail, frames, menuVisible,
           notebooks, activeNotebookId, openNotebookIds, store, autoSaveTimer,
           threw, lastOp, discarded, pressed, run, atDown, opener, mover,
           call, downLasso, sample, had, deleted >>

----------------------------------------------------------------------------
(* Bounds of the model *)

\* points a stroke in progress (or a lasso in progress) may hold
MaxPts == 2
\* strokes on one page
MaxStrokes == 2
\* history entries in the general specification (the program's own limit is
\* UndoLimit; DeepSpec reaches it)
MaxHist == 2
\* values the id clock hands out
MaxIds == 2
\* pages of the notebook
MaxPages == 2
\* text inputs open / image loads pending at a time
MaxPending == 1
MaxStored == 2
\* values the id clock hands out while the eraser splits strokes (every
\* move of the eraser in split mode gives the strokes of the page new ids)
MaxRubIds == 6
\* corners of a polygon
MaxPoly == 4
\* points of a lasso path
MaxLasso == 6
MaxDeep == 52
\* extent of the scrollable area
ScrollRange == 4
\* numerator and denominator of the scale before a zoom step
MaxScaleTerm == 40
\* points of the laser trail
MaxTrail == 2
\* animation frames requested and not yet run
MaxFrames == 2
\* milliseconds the clock advances at a time
TickMs == 500
\* notebooks the library ever holds
MaxNotebooks == 3
\* widths of the strokes of the page at which a gesture may start, in the
\* specification of the pointers released outside the canvas
MinExtent == 40
MaxExtent == 100

----------------------------------------------------------------------------
(* Program constants *)

UndoLimit == 50
PalmGuardY == 800
TapTolerance == 15
LassoTapMax == 5
RecognizeMinPts == 10
ImageW == 200
DupOffset == 20
LaserFade == 1000

----------------------------------------------------------------------------
(* Values *)

Null == << >>
Some(v) == << v >>
IsNull(o) == o = << >>
Val(o) == o[1]

Pt(x, y) == [x |-> x, y |-> y]

Abs(n) == IF n < 0 THEN -n ELSE n
Min2(a, b) == IF a < b THEN a ELSE b
Max2(a, b) == IF a > b THEN a ELSE b
Sq(n) == n * n

RECURSIVE SeqMin(_)
SeqMin(q) == IF Len(q) = 1 THEN q[1] ELSE Min2(q[1], SeqMin(Tail(q)))
RECURSIVE SeqMax(_)
SeqMax(q) == IF Len(q) = 1 THEN q[1] ELSE Max2(q[1], SeqMax(Tail(q)))

RECURSIVE Flatten(_)
Flatten(qq) == IF qq = << >> THEN << >> ELSE qq[1] \o Flatten(Tail(qq))

SelectSeqIdx(q, Keep(_)) ==
    LET F[i \in 0..Len(q)] ==
            IF i = 0 THEN << >>
            ELSE IF Keep(i) THEN Append(F[i - 1], q[i]) ELSE F[i - 1]
    IN  F[Len(q)]

Range(q) == { q[i] : i \in 1..Len(q) }

\* floor of the square root; exact on the perfect squares the event sets produce
ISqrt(n) == CHOOSE r \in 0..n : r * r <= n /\ (r + 1) * (r + 1) > n
Hypot(dx, dy) ==
    IF dy = 0 THEN Abs(dx) ELSE IF dx = 0 THEN Abs(dy) ELSE ISqrt(dx * dx + dy * dy)

----------------------------------------------------------------------------
(* Tool presets (constructor, lines 1635-1645) and tool change *)

Tools == {"pen", "highlighter", "eraser", "shape", "text", "lasso", "zoom", "image", "laser"}
PresetTools == {"pen", "highlighter", "eraser", "shape", "text"}

PresetSize(t) ==
    CASE t = "pen" -> 2
      [] t = "highlighter" -> 15
      [] t = "eraser" -> 30
      [] t = "shape" -> 2
      [] OTHER -> 2

PresetColor(t) ==
    CASE t = "highlighter" -> "#ffeb3b"
      [] t = "eraser" -> "eraser"
      [] OTHER -> "#000000"

----------------------------------------------------------------------------
(* Heap identity of strokes, JSON *)

StrokeRefs(strokes) == { strokes[i].ref : i \in 1..Len(strokes) }

PageRefs(pgs) == UNION { StrokeRefs(pgs[i].strokes) : i \in 1..Len(pgs) }

LiveRefs(s) ==
    PageRefs(s.pages) \cup StrokeRefs(s.selectedStrokes) \cup StrokeRefs(s.currentStroke)

\* the n smallest references not in `used`, in increasing order
RECURSIVE FreshRefs(_, _)
FreshRefs(n, used) ==
    IF n = 0 THEN << >>
    ELSE LET r == CHOOSE k \in 1..(Cardinality(used) + 1) : k \notin used
         IN  << r >> \o FreshRefs(n - 1, used \cup {r})

\* JSON.stringify of a stroke list: the values of the fields, not the objects
Serialize(strokes) == [i \in 1..Len(strokes) |-> [strokes[i] EXCEPT !.ref = 0]]

\* JSON.parse: new objects holding the serialized values
Parse(json, used) ==
    LET refs == FreshRefs(Len(json), used)
    IN  [i \in 1..Len(json) |-> [json[i] EXCEPT !.ref = refs[i]]]

----------------------------------------------------------------------------
(* The application state as one record *)

App ==
    [ tool |-> tool, isDrawing |-> isDrawing, isLassoing |-> isLassoing,
      isMoving |-> isMoving, isResizing |-> isResizing,
      lineWidth |-> lineWidth, color |-> color,
      eraseEntireStroke |-> eraseEntireStroke, hasChanged |-> hasChanged,
      pages |-> pages, currentPageIndex |-> currentPageIndex,
      currentStroke |-> currentStroke, lassoPath |-> lassoPath,
      selectedStrokes |-> selectedStrokes, moveStart |-> moveStart,
      undoStack |-> undoStack, redoStack |-> redoStack,
      preInteractionState |-> preInteractionState, lastCoords |-> lastCoords,
      activePointers |-> activePointers, gestureMode |-> gestureMode,
      activeCanvas |-> activeCanvas,
      scale |-> scale, scroll |-> scroll, scrollStart |-> scrollStart,
      lastGestureDist |-> lastGestureDist, lastGestureCenter |-> lastGestureCenter,
      clipboard |-> clipboard, textInputs |-> textInputs,
      imageLoads |-> imageLoads, idClock |-> idClock, laserTrail |-> laserTrail,
      frames |-> frames,
      notebooks |-> notebooks, activeNotebookId |-> activeNotebookId,
      openNotebookIds |-> openNotebookIds, store |-> store,
      autoSaveTimer |-> autoSaveTimer,
      menuVisible |-> menuVisible, threw |-> FALSE ]

Becomes(s) ==
    /\ tool' = s.tool
    /\ isDrawing' = s.isDrawing
    /\ isLassoing' = s.isLassoing
    /\ isMoving' = s.isMoving
    /\ isResizing' = s.isResizing
    /\ lineWidth' = s.lineWidth
    /\ color' = s.color
    /\ eraseEntireStroke' = s.eraseEntireStroke
    /\ hasChanged' = s.hasChanged
    /\ pages' = s.pages
    /\ currentPageIndex' = s.currentPageIndex
    /\ currentStroke' = s.currentStroke
    /\ lassoPath' = s.lassoPath
    /\ selectedStrokes' = s.selectedStrokes
    /\ moveStart' = s.moveStart
    /\ undoStack' = s.undoStack
    /\ redoStack' = s.redoStack
    /\ preInteractionState' = s.preInteractionState
    /\ lastCoords' = s.lastCoords
    /\ activePointers' = s.activePointers
    /\ gestureMode' = s.gestureMode
    /\ activeCanvas' = s.activeCanvas
    /\ scale' = s.scale
    /\ scroll' = s.scroll
    /\ scrollStart' = s.scrollStart
    /\ lastGestureDist' = s.lastGestureDist
    /\ lastGestureCenter' = s.lastGestureCenter
    /\ clipboard' = s.clipboard
    /\ textInputs' = s.textInputs
    /\ imageLoads' = s.imageLoads
    /\ idClock' = s.idClock
    /\ laserTrail' = s.laserTrail
    /\ frames' = s.frames
    /\ notebooks' = s.notebooks
    /\ activeNotebookId' = s.activeNotebookId
    /\ openNotebookIds' = s.openNotebookIds
    /\ store' = s.store
    /\ autoSaveTimer' = s.autoSaveTimer
    /\ menuVisible' = s.menuVisible
    /\ threw' = s.threw

\* A point of the laser trail (lines 2448, 2563): age is Date.now() - time,
\* the time since the point was stored, which stops counting at LaserFade.
LaserPoint(coords) == [x |-> coords.x, y |-> coords.y, age |-> 0]

\* the variant that keeps every point of the trail
RenderKeepsTrail(s) ==
    IF s.currentPageIndex \in 1..Len(s.pages) /\ Len(s.laserTrail) > 0
    THEN [s EXCEPT !.frames = @ + 1]
    ELSE s

\* render(), its state changes (lines 3003-3024): on the current page a
\* trail that is not empty loses the points that have faded, and the next
\* animation frame is requested; frames counts the requests not yet run
Render(s) ==
    IF s.currentPageIndex \in 1..Len(s.pages) /\ Len(s.laserTrail) > 0
    THEN [s EXCEPT !.laserTrail = SelectSeq(@, LAMBDA p : p.age < LaserFade),
                   !.frames = @ + 1]
    ELSE s

\* The value the store keeps for a notebook (IndexedDB's structured clone of
\* this.pages): the values of the fields, not the objects
StoredPages(pgs) == [i \in 1..Len(pgs) |-> [pgs[i] EXCEPT !.strokes = Serialize(@)]]

\* saveNotes (lines 3235-3244): the key 'note_<id>' of the active notebook is
\* set; 0 stands for no active notebook. The put is issued before any later
\* event is handled.
SaveNotes(s) ==
    IF s.activeNotebookId = 0 THEN s
    ELSE [s EXCEPT !.store[s.activeNotebookId] = Some(StoredPages(s.pages))]

\* triggerAutoSave (lines 3222-3233): autoSaveTimer holds whether the
\* debounce timer is pending
TriggerAutoSave(s) == [s EXCEPT !.autoSaveTimer = TRUE]

\* the timer's callback (line 3231)
AutoSave(s) == SaveNotes([s EXCEPT !.autoSaveTimer = FALSE])

\* get currentPage() (line 1907)
CurrentStrokes(s) == s.pages[s.currentPageIndex].strokes

SetCurrentStrokes(s, strokes) ==
    [s EXCEPT !.pages[s.currentPageIndex].strokes = strokes]

----------------------------------------------------------------------------
(* Stroke objects *)

\* handlePointerDown, lines 2457-2464; opacity in tenths (0.3 -> 3, 1.0 -> 10)
Freehand(points, col, width, opacity, tl, id, ref) ==
    [ type |-> "freehand", points |-> points, color |-> col, width |-> width,
      opacity |-> opacity, tool |-> tl, id |-> id, isShape |-> FALSE, ref |-> ref ]

\* finalizeText, lines 2519-2529
TextStroke(text, x, y, w, h, col, ref) ==
    [ type |-> "text", text |-> text, x |-> x, y |-> y, w |-> w, h |-> h,
      color |-> col, size |-> h, points |-> << >>, ref |-> ref ]

\* addImageToCanvas, lines 2160-2166
ImageStroke(src, x, y, w, h, ref) ==
    [ type |-> "image", src |-> src, x |-> x, y |-> y, w |-> w, h |-> h,
      points |-> << >>, ref |-> ref ]

IsBox(st) == st.type = "text" \/ st.type = "image"

\* `v || d` on a number
OrDefault(v, d) == IF v = 0 THEN d ELSE v

----------------------------------------------------------------------------
(* History: pushUndo, undo, redo (lines 2728-2735, 2768-2798).  An entry's  *)
(* `strokes` is a JSON string, or undefined (Null).                         *)

PushUndoDropsNewest(s, pageIndex, oldStrokesState) ==
    LET pushed == Append(s.undoStack, [pageIndex |-> pageIndex, strokes |-> oldStrokesState])
    IN  [s EXCEPT !.undoStack = IF Len(pushed) > UndoLimit
                                THEN SubSeq(pushed, 1, Len(pushed) - 1) ELSE pushed,
                  !.redoStack = << >>]

PushUndoKeepsRedo(s, pageIndex, oldStrokesState) ==
    LET pushed == Append(s.undoStack, [pageIndex |-> pageIndex, strokes |-> oldStrokesState])
    IN  [s EXCEPT !.undoStack = IF Len(pushed) > UndoLimit THEN Tail(pushed) ELSE pushed]

PushUndo(s, pageIndex, oldStrokesState) ==
    LET pushed == Append(s.undoStack, [pageIndex |-> pageIndex, strokes |-> oldStrokesState])
    IN  [s EXCEPT !.undoStack = IF Len(pushed) > UndoLimit THEN Tail(pushed) ELSE pushed,
                  !.redoStack = << >>]

\* references that stay alive when page `pageIndex` gets a new stroke array and
\* the selection is emptied
RefsAfterReplace(s, pageIndex) ==
    UNION { StrokeRefs(s.pages[i].strokes) : i \in (1..Len(s.pages)) \ {pageIndex} }
        \cup StrokeRefs(s.currentStroke)

\* variants used to test the properties of the history
UndoLeavesPage(s) ==
    IF Len(s.undoStack) = 0 THEN s
    ELSE LET action == s.undoStack[Len(s.undoStack)]
         IN  [s EXCEPT !.undoStack = SubSeq(s.undoStack, 1, Len(s.undoStack) - 1),
                       !.redoStack = Append(s.redoStack,
                            [pageIndex |-> action.pageIndex,
                             strokes |-> Some(Serialize(s.pages[action.pageIndex].strokes))])]

RedoSkipsUndoPush(s) ==
    IF Len(s.redoStack) = 0 THEN s
    ELSE LET action == s.redoStack[Len(s.redoStack)]
         IN  [s EXCEPT !.redoStack = SubSeq(s.redoStack, 1, Len(s.redoStack) - 1),
                       !.pages[action.pageIndex].strokes =
                            Parse(Val(action.strokes), RefsAfterReplace(s, action.pageIndex)),
                       !.selectedStrokes = << >>,
                       !.lassoPath = Null]

Undo(s) ==
    IF Len(s.undoStack) = 0 THEN s
    ELSE LET action == s.undoStack[Len(s.undoStack)]
             pageIndex == action.pageIndex
             popped == [s EXCEPT !.undoStack = SubSeq(s.undoStack, 1, Len(s.undoStack) - 1)]
             pushed == [popped EXCEPT !.redoStack = Append(s.redoStack,
                            [pageIndex |-> pageIndex,
                             strokes |-> Some(Serialize(s.pages[pageIndex].strokes))])]
         IN  IF pageIndex \notin 1..Len(s.pages)
             THEN \* page is undefined: reading page.strokes throws
                  [popped EXCEPT !.threw = TRUE]
             ELSE IF IsNull(action.strokes)
             THEN \* JSON.parse(undefined) throws
                  [pushed EXCEPT !.threw = TRUE]
             ELSE Render(SaveNotes([pushed EXCEPT
                    !.pages[pageIndex].strokes =
                        Parse(Val(action.strokes), RefsAfterReplace(s, pageIndex)),
                    !.selectedStrokes = << >>,
                    !.lassoPath = Null]))

Redo(s) ==
    IF Len(s.redoStack) = 0 THEN s
    ELSE LET action == s.redoStack[Len(s.redoStack)]
             pageIndex == action.pageIndex
             popped == [s EXCEPT !.redoStack = SubSeq(s.redoStack, 1, Len(s.redoStack) - 1)]
             pushed == [popped EXCEPT !.undoStack = Append(s.undoStack,
                            [pageIndex |-> pageIndex,
                             strokes |-> Some(Serialize(s.pages[pageIndex].strokes))])]
         IN  IF pageIndex \notin 1..Len(s.pages)
             THEN [popped EXCEPT !.threw = TRUE]
             ELSE IF IsNull(action.strokes)
             THEN [pushed EXCEPT !.threw = TRUE]
             ELSE Render(SaveNotes([pushed EXCEPT
                    !.pages[pageIndex].strokes =
                        Parse(Val(action.strokes), RefsAfterReplace(s, pageIndex)),
                    !.selectedStrokes = << >>,
                    !.lassoPath = Null]))

----------------------------------------------------------------------------
(* Geometry (lines 2870-2877, 2928-2938) *)

\* distToSegment(p, v, w), squared, as the fraction n/d with d > 0
RECURSIVE GCD(_, _)
GCD(a, b) == IF b = 0 THEN a ELSE GCD(b, a % b)

\* the fraction n/d in lowest terms
Frac(n, d) == LET g == GCD(n, d) IN [n |-> n \div g, d |-> d \div g]

DistToSegmentSq(p, v, w) ==
    LET l2 == Sq(v.x - w.x) + Sq(v.y - w.y)
        dot == (p.x - v.x) * (w.x - v.x) + (p.y - v.y) * (w.y - v.y)
        pv2 == Sq(p.x - v.x) + Sq(p.y - v.y)
        pw2 == Sq(p.x - w.x) + Sq(p.y - w.y)
    IN  IF l2 = 0 THEN [n |-> pv2, d |-> 1]
        ELSE IF dot <= 0 THEN [n |-> pv2, d |-> 1]
        ELSE IF dot >= l2 THEN [n |-> pw2, d |-> 1]
        ELSE Frac(pv2 * l2 - dot * dot, l2)

FracMin(a, b) == IF a.n * b.d <= b.n * a.d THEN a ELSE b

\* segmentsDistance(p1, p2, p3, p4), squared
SegmentsDistanceSq(p1, p2, p3, p4) ==
    FracMin(FracMin(DistToSegmentSq(p3, p1, p2), DistToSegmentSq(p4, p1, p2)),
            FracMin(DistToSegmentSq(p1, p3, p4), DistToSegmentSq(p2, p3, p4)))

\* f < r, for a squared distance f and a length r >= 0 given as rnum/rden
FracBelow(f, rnum, rden) == f.n * rden * rden < rnum * rnum * f.d

\* variant: any crossing counts, the parity is not kept
IsPointInLassoAnyCrossing(p, poly) ==
    LET n == Len(poly)
        Crosses(i) ==
            LET j == IF i = 1 THEN n ELSE i - 1
                xi == poly[i].x
                yi == poly[i].y
                xj == poly[j].x
                yj == poly[j].y
                dy == yj - yi
            IN  /\ (yi > p.y) # (yj > p.y)
                /\ IF dy > 0
                   THEN (p.x - xi) * dy < (xj - xi) * (p.y - yi)
                   ELSE (p.x - xi) * dy > (xj - xi) * (p.y - yi)
    IN  \E i \in 1..n : Crosses(i)

\* isPointInLasso(p, poly) on a point list
IsPointInLasso(p, poly) ==
    LET n == Len(poly)
        Crosses(i) ==
            LET j == IF i = 1 THEN n ELSE i - 1
                xi == poly[i].x
                yi == poly[i].y
                xj == poly[j].x
                yj == poly[j].y
                dy == yj - yi
            IN  /\ (yi > p.y) # (yj > p.y)
                /\ IF dy > 0
                   THEN (p.x - xi) * dy < (xj - xi) * (p.y - yi)
                   ELSE (p.x - xi) * dy > (xj - xi) * (p.y - yi)
    IN  Cardinality({ i \in 1..n : Crosses(i) }) % 2 = 1

----------------------------------------------------------------------------
(* Selection (lines 2800-2868) *)

StrokeXs(st) ==
    IF IsBox(st) THEN << st.x, st.x + OrDefault(st.w, 50) >>
    ELSE [i \in 1..Len(st.points) |-> st.points[i].x]

StrokeYs(st) ==
    IF IsBox(st) THEN << st.y, st.y + OrDefault(st.h, 20) >>
    ELSE [i \in 1..Len(st.points) |-> st.points[i].y]

\* getSelectionBounds: null, or {x, y, w, h}
BoundsOf(strokes) ==
    LET xs == Flatten([i \in 1..Len(strokes) |-> StrokeXs(strokes[i])])
        ys == Flatten([i \in 1..Len(strokes) |-> StrokeYs(strokes[i])])
    IN  IF Len(strokes) = 0 \/ Len(xs) = 0 THEN Null
        ELSE Some([x |-> SeqMin(xs), y |-> SeqMin(ys),
                   w |-> SeqMax(xs) - SeqMin(xs), h |-> SeqMax(ys) - SeqMin(ys)])

GetSelectionBounds(s) == BoundsOf(s.selectedStrokes)

\* the filter of findSelectedStrokes; box centres are compared doubled
InLasso(st, poly) ==
    IF IsBox(st)
    THEN IsPointInLasso(Pt(2 * st.x + OrDefault(st.w, 50), 2 * st.y + OrDefault(st.h, 20)),
                        [i \in 1..Len(poly) |-> Pt(2 * poly[i].x, 2 * poly[i].y)])
    ELSE \E i \in 1..Len(st.points) : IsPointInLasso(st.points[i], poly)

FindSelectedStrokes(s) ==
    LET strokes == CurrentStrokes(s)
    IN  [s EXCEPT !.selectedStrokes =
            SelectSeqIdx(strokes, LAMBDA i : InLasso(strokes[i], Val(s.lassoPath)))]

TapHits(st, coords) ==
    IF IsBox(st)
    THEN LET w == OrDefault(st.w, IF st.type = "text" THEN 100 ELSE 50)
             h == OrDefault(st.h, IF st.type = "text" THEN 30 ELSE 50)
         IN  /\ coords.x >= st.x /\ coords.x <= st.x + w
             /\ coords.y >= st.y /\ coords.y <= st.y + h
    ELSE \E j \in 1..(Len(st.points) - 1) :
            FracBelow(DistToSegmentSq(coords, st.points[j], st.points[j + 1]),
                      TapTolerance, 1)

\* variant: the scan runs from the first committed stroke to the last
TapSelectOldestFirst(s, coords) ==
    LET strokes == CurrentStrokes(s)
        hits == { i \in 1..Len(strokes) : TapHits(strokes[i], coords) }
    IN  IF hits # {}
        THEN LET found == strokes[CHOOSE i \in hits : \A k \in hits : k >= i]
                 b == Val(BoundsOf(<< found >>))
             IN  IF IsNull(BoundsOf(<< found >>))
                 THEN [s EXCEPT !.selectedStrokes = << found >>]
                 ELSE [s EXCEPT !.selectedStrokes = << found >>,
                                !.lassoPath = Some(<< Pt(b.x, b.y), Pt(b.x + b.w, b.y),
                                                     Pt(b.x + b.w, b.y + b.h),
                                                     Pt(b.x, b.y + b.h), Pt(b.x, b.y) >>)]
        ELSE [s EXCEPT !.selectedStrokes = << >>, !.lassoPath = Null]

\* tapSelect (lines 2834-2868)
TapSelect(s, coords) ==
    LET strokes == CurrentStrokes(s)
        hits == { i \in 1..Len(strokes) : TapHits(strokes[i], coords) }
    IN  IF hits # {}
        THEN LET found == strokes[CHOOSE i \in hits : \A k \in hits : k <= i]
                 b == Val(BoundsOf(<< found >>))
             IN  IF IsNull(BoundsOf(<< found >>))
                 THEN [s EXCEPT !.selectedStrokes = << found >>]
                 ELSE [s EXCEPT !.selectedStrokes = << found >>,
                                !.lassoPath = Some(<< Pt(b.x, b.y), Pt(b.x + b.w, b.y),
                                                     Pt(b.x + b.w, b.y + b.h),
                                                     Pt(b.x, b.y + b.h), Pt(b.x, b.y) >>)]
        ELSE [s EXCEPT !.selectedStrokes = << >>, !.lassoPath = Null]


----------------------------------------------------------------------------
(* Eraser: performErase (lines 2879-2926) *)

\* variant: the eraser's width taken for its radius
EraserHitsFullWidth(s, ep1, ep2, a, b) ==
    FracBelow(SegmentsDistanceSq(ep1, ep2, a, b), s.lineWidth, 1)

EraserHits(s, ep1, ep2, a, b) ==
    FracBelow(SegmentsDistanceSq(ep1, ep2, a, b), s.lineWidth, 2)

\* variant: the path left after the last segment is not stored
SplitPathsDropsTail(s, pts, ep1, ep2) ==
    LET n == Len(pts)
        F[i \in 0..(n - 1)] ==
            IF i = 0 THEN [cur |-> << >>, out |-> << >>]
            ELSE LET prev == F[i - 1]
                 IN  IF EraserHits(s, ep1, ep2, pts[i], pts[i + 1])
                     THEN [cur |-> << >>,
                           out |-> IF Len(prev.cur) > 0 THEN Append(prev.out, prev.cur)
                                   ELSE prev.out]
                     ELSE [cur |-> (IF Len(prev.cur) = 0 THEN << pts[i] >> ELSE prev.cur)
                                       \o << pts[i + 1] >>,
                           out |-> prev.out]
        last == F[n - 1]
    IN  last.out

\* the point lists a stroke's points are split into (lines 2901-2920)
SplitPaths(s, pts, ep1, ep2) ==
    LET n == Len(pts)
        F[i \in 0..(n - 1)] ==
            IF i = 0 THEN [cur |-> << >>, out |-> << >>]
            ELSE LET prev == F[i - 1]
                 IN  IF EraserHits(s, ep1, ep2, pts[i], pts[i + 1])
                     THEN [cur |-> << >>,
                           out |-> IF Len(prev.cur) > 0 THEN Append(prev.out, prev.cur)
                                   ELSE prev.out]
                     ELSE [cur |-> (IF Len(prev.cur) = 0 THEN << pts[i] >> ELSE prev.cur)
                                       \o << pts[i + 1] >>,
                           out |-> prev.out]
        last == F[n - 1]
    IN  IF Len(last.cur) > 1 THEN Append(last.out, last.cur) ELSE last.out

ErasableWhole(st) == Len(st.points) >= 2

ErasableSplit(st) == Len(st.points) >= 2 /\ ~IsBox(st)

\* variant: a stroke without a segment is not kept
KeepsStrokeWithSegmentsOnly(s, st, ep1, ep2) ==
    /\ ErasableWhole(st)
    /\ \A i \in 1..(Len(st.points) - 1) :
           ~EraserHits(s, ep1, ep2, st.points[i], st.points[i + 1])

\* the filter of whole-stroke mode (lines 2885-2891): whether st stays
KeepsStroke(s, st, ep1, ep2) ==
    \/ ~ErasableWhole(st)
    \/ \A i \in 1..(Len(st.points) - 1) :
           ~EraserHits(s, ep1, ep2, st.points[i], st.points[i + 1])

PerformErase(s, eraser) ==
    LET n == Len(eraser.points)
        ep2 == eraser.points[n]
        ep1 == eraser.points[n - 1]
        strokes == CurrentStrokes(s)
    IN  IF n < 2 THEN s
        ELSE IF s.eraseEntireStroke
        THEN SetCurrentStrokes(s,
                SelectSeqIdx(strokes, LAMBDA k : KeepsStroke(s, strokes[k], ep1, ep2)))
        ELSE LET \* per stroke: the strokes that replace it, without id and ref
                 parts == [k \in 1..Len(strokes) |->
                             IF ~ErasableSplit(strokes[k]) THEN << strokes[k] >>
                             ELSE LET paths == SplitPaths(s, strokes[k].points, ep1, ep2)
                                  IN  [j \in 1..Len(paths) |->
                                          [strokes[k] EXCEPT !.points = paths[j],
                                                             !.ref = 0]]]
                 flat == Flatten(parts)
                 isNew == [i \in 1..Len(flat) |-> flat[i].ref = 0]
                 rank == [i \in 1..Len(flat) |->
                             Cardinality({ j \in 1..i : isNew[j] })]
                 kept == { flat[i].ref : i \in { j \in 1..Len(flat) : ~isNew[j] } }
                 used == kept \cup StrokeRefs(s.selectedStrokes) \cup StrokeRefs(s.currentStroke)
                           \cup UNION { StrokeRefs(s.pages[i].strokes) :
                                          i \in (1..Len(s.pages)) \ {s.currentPageIndex} }
                 count == Cardinality({ i \in 1..Len(flat) : isNew[i] })
                 refs == FreshRefs(count, used)
                 newStrokes == [i \in 1..Len(flat) |->
                                   IF isNew[i]
                                   THEN [flat[i] EXCEPT !.id = s.idClock + rank[i] - 1,
                                                        !.ref = refs[rank[i]]]
                                   ELSE flat[i]]
             IN  [SetCurrentStrokes(s, newStrokes) EXCEPT !.idClock = s.idClock + count]

----------------------------------------------------------------------------
(* Shape recognition: recognizeAndStraightenShape (lines 2261-2358) *)

\* floor of the square root, by bisection
RECURSIVE SqrtBetween(_, _, _)
SqrtBetween(n, lo, hi) ==
    IF hi - lo <= 1 THEN lo
    ELSE LET mid == (lo + hi) \div 2
         IN  IF mid <= n \div mid THEN SqrtBetween(n, mid, hi) ELSE SqrtBetween(n, lo, mid)

FloorSqrt(n) == SqrtBetween(n, 0, n + 1)

\* thresholds of the recognizer
CloseDist == 60
EllipseTol == [n |-> 3, d |-> 25]
CircleTol == [n |-> 1, d |-> 5]
SquareTol == [n |-> 3, d |-> 20]
AreaSplit == [n |-> 7, d |-> 10]
Steps == 72

\* the bounding box of the points (lines 2267-2274)
BoxOf(xs, ys) ==
    [minX |-> SeqMin(xs), minY |-> SeqMin(ys), maxX |-> SeqMax(xs), maxY |-> SeqMax(ys),
     w |-> SeqMax(xs) - SeqMin(xs), h |-> SeqMax(ys) - SeqMin(ys)]

ShapeBox(pts) ==
    BoxOf([i \in 1..Len(pts) |-> pts[i].x], [i \in 1..Len(pts) |-> pts[i].y])

\* twice the centre of the bounding box b (lines 2275-2276)
ShapeCenter2(b) == Pt(2 * b.minX + b.w, 2 * b.minY + b.h)

\* lines 2277-2280, the distances compared squared
IsClosed(pts, b) ==
    \/ 4 * (Sq(pts[Len(pts)].x - pts[1].x) + Sq(pts[Len(pts)].y - pts[1].y))
          < Sq(Max2(b.w, b.h))
    \/ Sq(pts[Len(pts)].x - pts[1].x) + Sq(pts[Len(pts)].y - pts[1].y) < Sq(CloseDist)

\* twice the divisors rx || 1 and ry || 1 (lines 2287-2288)
ShapeDivisors(b) == Pt(IF b.w = 0 THEN 2 ELSE b.w, IF b.h = 0 THEN 2 ELSE b.h)

\* |sqrt(n) - one| between the bounds that f, the floor of the square root
\* of n, gives: equal when the root is an integer
DeviationAround(n, f, one) ==
    IF Sq(f) = n THEN [lo |-> Abs(f - one), hi |-> Abs(f - one)]
    ELSE [lo |-> Min2(Abs(f - one), Abs(f + 1 - one)),
          hi |-> Max2(Abs(f - one), Abs(f + 1 - one))]

DeviationOf(n, one) == DeviationAround(n, FloorSqrt(n), one)

\* the summand |sqrt(dx * dx + dy * dy) - 1| of point p (line 2289), times
\* the product of the two divisors dv; c2 is twice the centre
RadialDeviation(p, c2, dv) ==
    DeviationOf(Sq(2 * p.x - c2.x) * Sq(dv.y) + Sq(2 * p.y - c2.y) * Sq(dv.x), dv.x * dv.y)

\* the sum of the summands of the first i points (lines 2285-2290), between
\* lo and hi
AddBounds(a, b) == [lo |-> a.lo + b.lo, hi |-> a.hi + b.hi]

RECURSIVE DeviationSum(_, _, _, _)
DeviationSum(pts, c2, dv, i) ==
    IF i = 0 THEN [lo |-> 0, hi |-> 0]
    ELSE AddBounds(DeviationSum(pts, c2, dv, i - 1), RadialDeviation(pts[i], c2, dv))

\* ellipseVariance times the number of points and the divisors
EllipseVariance(pts, b) == DeviationSum(pts, ShapeCenter2(b), ShapeDivisors(b), Len(pts))

\* ellipseVariance < 0.12 (lines 2291-2293)
IsEllipse(pts, b) ==
    EllipseTol.d * EllipseVariance(pts, b).hi
        < EllipseTol.n * Len(pts) * ShapeDivisors(b).x * ShapeDivisors(b).y

\* the bounds of the sum settle the comparison
EllipseDecided(pts, b) ==
    \/ IsEllipse(pts, b)
    \/ EllipseTol.d * EllipseVariance(pts, b).lo
          >= EllipseTol.n * Len(pts) * ShapeDivisors(b).x * ShapeDivisors(b).y

\* The point (centerX + cos(angle) * finalRx, centerY + sin(angle) * finalRy)
\* of step i (lines 2308-2311). The cosine is irrational at most steps, so
\* the point is kept as what it is computed from: c2 is twice the centre, r4
\* four times the two radii.
EllipsePoint(c2, r4, i) == [c2 |-> c2, r4 |-> r4, step |-> i]

\* the variant that keeps the radii of the bounding box
EllipseSamplingKeepsRadii(b) ==
    [i \in 1..(Steps + 1) |-> EllipsePoint(ShapeCenter2(b), Pt(2 * b.w, 2 * b.h), i - 1)]

\* lines 2294-2311: isCircle makes both radii their average
EllipseSampling(b) ==
    [i \in 1..(Steps + 1) |->
        EllipsePoint(ShapeCenter2(b),
                     IF CircleTol.d * Abs(b.w - b.h) < CircleTol.n * Max2(b.w, b.h)
                     THEN Pt(b.w + b.h, b.w + b.h)
                     ELSE Pt(2 * b.w, 2 * b.h),
                     i - 1)]

\* twice strokeArea (lines 2320-2324)
RECURSIVE Shoelace(_, _)
Shoelace(pts, i) ==
    IF i = 0 THEN 0
    ELSE Shoelace(pts, i - 1) + (pts[i].x * pts[i + 1].y - pts[i + 1].x * pts[i].y)

\* ratio > 0.7 (lines 2325-2330)
FillsItsBox(pts, b) ==
    AreaSplit.d * Abs(Shoelace(pts, Len(pts) - 1))
        > 2 * AreaSplit.n * (IF b.w * b.h = 0 THEN 1 ELSE b.w * b.h)

\* the corners from finalX, finalY, finalW, finalH (lines 2338-2342)
Corners(x, y, w, h) ==
    << Pt(x, y), Pt(x + w, y), Pt(x + w, y + h), Pt(x, y + h), Pt(x, y) >>

\* finalW and finalH (lines 2333-2336)
FinalSize(b) ==
    IF SquareTol.d * Abs(b.w - b.h) < SquareTol.n * Max2(b.w, b.h)
    THEN Pt(Max2(b.w, b.h), Max2(b.w, b.h))
    ELSE Pt(b.w, b.h)

RectangleOf(c2, size) ==
    Corners((c2.x - size.x) \div 2, (c2.y - size.y) \div 2, size.x, size.y)

\* lines 2331-2343
RectanglePoints(b) == RectangleOf(ShapeCenter2(b), FinalSize(b))

\* lines 2344-2349
TrianglePoints(b) ==
    << Pt(ShapeCenter2(b).x \div 2, b.minY), Pt(b.maxX, b.maxY), Pt(b.minX, b.maxY),
       Pt(ShapeCenter2(b).x \div 2, b.minY) >>

\* the corners of the replacement are integral
StraightenExact(b) == b.w % 2 = 0 /\ b.h % 2 = 0

\* the straight-line replacement (lines 2353-2356)
StraightLine(st) ==
    [st EXCEPT !.points = << st.points[1], st.points[Len(st.points)] >>, !.isShape = TRUE]

\* lines 2263-2357: the stroke st with the bounding box b of its points
Straighten(st, b) ==
    IF IsEllipse(st.points, b)
    THEN [st EXCEPT !.points = EllipseSampling(b), !.isShape = TRUE]
    ELSE IF IsClosed(st.points, b)
    THEN [st EXCEPT !.points = IF FillsItsBox(st.points, b) THEN RectanglePoints(b)
                               ELSE TrianglePoints(b),
                    !.isShape = TRUE]
    ELSE StraightLine(st)

\* A stroke of fewer than RecognizeMinPts points is left as it is (line 2262).
RecognizeAndStraightenShape(cs) ==
    IF IsNull(cs) THEN cs
    ELSE IF Len(Val(cs).points) < RecognizeMinPts THEN cs
    ELSE Some(Straighten(Val(cs), ShapeBox(Val(cs).points)))

----------------------------------------------------------------------------
(* Viewport: setZoom (lines 1853-1869), gesture helpers (lines 2737-2751) *)

FracLess(a, b) == a.n * b.d < b.n * a.d

ZoomMin == Frac(2, 5)
ZoomMax == Frac(3, 1)

\* the variant that does not clamp
SetZoomUnclamped(s, newScale) ==
    IF s.scale = newScale THEN s ELSE [s EXCEPT !.scale = newScale]

SetZoom(s, newScale) ==
    LET capped == IF FracLess(ZoomMax, newScale) THEN ZoomMax ELSE newScale
        target == IF FracLess(capped, ZoomMin) THEN ZoomMin ELSE capped
    IN  IF s.scale = target THEN s ELSE Render([s EXCEPT !.scale = target])

\* the wheel listener (lines 1843-1850); e = [ctrlKey, deltaY], ctrlKey also
\* standing for metaKey
WheelFactor(deltaY) == IF deltaY > 0 THEN Frac(19, 20) ELSE Frac(21, 20)

HandleWheel(s, e) ==
    IF e.ctrlKey
    THEN SetZoom(s, Frac(s.scale.n * WheelFactor(e.deltaY).n,
                         s.scale.d * WheelFactor(e.deltaY).d))
    ELSE s

\* activePointers is a Map: insertion-ordered, set() keeps the place of a key
PointerIdx(ap, id) == { i \in 1..Len(ap) : ap[i].id = id }

PointersSet(ap, id, x, y) ==
    IF PointerIdx(ap, id) = {}
    THEN Append(ap, [id |-> id, x |-> x, y |-> y])
    ELSE [i \in 1..Len(ap) |-> IF ap[i].id = id THEN [id |-> id, x |-> x, y |-> y] ELSE ap[i]]

PointersDelete(ap, id) == SelectSeqIdx(ap, LAMBDA i : ap[i].id # id)

GetGestureDist(s) ==
    LET pts == s.activePointers
    IN  IF Len(pts) < 2 THEN 0 ELSE Hypot(pts[1].x - pts[2].x, pts[1].y - pts[2].y)

\* client coordinates are even, so the midpoint is integral
GetGestureCenter(s) ==
    LET pts == s.activePointers
    IN  IF Len(pts) = 0 THEN Pt(0, 0)
        ELSE IF Len(pts) = 1 THEN Pt(pts[1].x, pts[1].y)
        ELSE Pt((pts[1].x + pts[2].x) \div 2, (pts[1].y + pts[2].y) \div 2)


----------------------------------------------------------------------------
(* Text elements (lines 2468-2533) *)

\* createTextElement: an <input> positioned at coords; its value is what the
\* user has typed so far
CreateTextElement(s, coords, initialText, initialSize) ==
    IF s.activeCanvas = 0 THEN s
    ELSE [s EXCEPT !.textInputs = Append(@,
            [ x |-> coords.x, y |-> coords.y, value |-> initialText,
              color |-> s.color,
              fontSize |-> IF initialSize = 0 THEN s.lineWidth * 4 + 12 ELSE initialSize ])]

TriggerTextEdit(s, stroke) ==
    LET strokes == CurrentStrokes(s)
        removed == [SetCurrentStrokes(s,
                        SelectSeqIdx(strokes, LAMBDA i : strokes[i].ref # stroke.ref))
                    EXCEPT !.selectedStrokes = << >>, !.lassoPath = Null]
    IN  CreateTextElement(removed, Pt(stroke.x, stroke.y), stroke.text, stroke.size)

\* finalizeText(input, coords) on the k-th open input; `width` is what
\* measureText reports
FinalizeText(s, k, width) ==
    LET input == s.textInputs[k]
        rest == SelectSeqIdx(s.textInputs, LAMBDA i : i # k)
        ref == FreshRefs(1, LiveRefs(s))[1]
    IN  IF input.value # ""
        THEN SaveNotes([SetCurrentStrokes(s, Append(CurrentStrokes(s),
                    TextStroke(input.value, input.x, input.y, width, input.fontSize,
                               input.color, ref)))
              EXCEPT !.textInputs = rest])
        ELSE [s EXCEPT !.textInputs = rest]

----------------------------------------------------------------------------
(* handlePointerDown (lines 2360-2466) *)

TextHit(st, coords) ==
    /\ st.type = "text"
    /\ coords.x >= st.x /\ coords.x <= st.x + OrDefault(st.w, 100)
    /\ coords.y >= st.y /\ coords.y <= st.y + OrDefault(st.h, 30)

\* the stroke opened on first contact (lines 2456-2464)
OpenStroke(s, coords) ==
    [s EXCEPT
        !.isDrawing = TRUE,
        !.currentStroke = Some(Freehand(<< coords >>,
                                IF s.tool = "eraser" THEN "eraser" ELSE s.color,
                                s.lineWidth,
                                IF s.tool = "highlighter" THEN 3 ELSE 10,
                                s.tool, s.idClock,
                                FreshRefs(1, PageRefs(s.pages)
                                             \cup StrokeRefs(s.selectedStrokes))[1])),
        !.idClock = s.idClock + 1]

\* the lasso tool's branch (lines 2405-2433)
LassoDown(s, coords) ==
    LET bounds == GetSelectionBounds(s)
        b == Val(bounds)
        onHandle == /\ ~IsNull(bounds)
                    /\ Sq(coords.x - (b.x + b.w)) + Sq(coords.y - (b.y + b.h)) < Sq(15)
        sel == s.selectedStrokes
    IN  IF onHandle
        THEN [s EXCEPT !.isResizing = TRUE, !.moveStart = Some(coords)]
        ELSE IF Len(sel) = 1 /\ TextHit(sel[1], coords)
        THEN TriggerTextEdit(s, sel[1])
        ELSE IF Len(sel) > 0 /\ IsNull(s.lassoPath)
        THEN \* isPointInLasso reads poly.length of null
             [s EXCEPT !.threw = TRUE]
        ELSE IF Len(sel) > 0 /\ IsPointInLasso(coords, Val(s.lassoPath))
        THEN [s EXCEPT !.isMoving = TRUE, !.moveStart = Some(coords)]
        ELSE [s EXCEPT !.isLassoing = TRUE, !.lassoPath = Some(<< coords >>),
                       !.selectedStrokes = << >>]

\* the cancellation of the stroke in progress (lines 2367-2370)
CancelKeepsStroke(s) == [s EXCEPT !.gestureMode = "nav"]

CancelStroke(s) ==
    IF s.isDrawing
    THEN [s EXCEPT !.gestureMode = "nav", !.isDrawing = FALSE, !.currentStroke = Null]
    ELSE [s EXCEPT !.gestureMode = "nav"]

\* the mode with one active pointer (lines 2381-2383)
SinglePointerModeStale(s) == s

SinglePointerMode(s) ==
    IF Len(s.activePointers) = 1 THEN [s EXCEPT !.gestureMode = "draw"] ELSE s

\* e = [pointerId, clientX, clientY, page, coords]: page is the index of the
\* page whose ink canvas received the event, coords what getCoordinates returns
HandlePointerDown(s, e) ==
    LET s1 == [s EXCEPT !.activePointers = PointersSet(@, e.pointerId, e.clientX, e.clientY)]
    IN  IF Len(s1.activePointers) >= 2
        THEN LET c == CancelStroke(s1)
             IN  Render([c EXCEPT !.scrollStart = s.scroll,
                                  !.lastGestureDist = GetGestureDist(s1),
                                  !.lastGestureCenter = Some(GetGestureCenter(s1))])
        ELSE LET s2 == SinglePointerMode(s1)
             IN  IF e.clientY > PalmGuardY THEN s2
                 ELSE LET s3 == [s2 EXCEPT
                                    !.activeCanvas = e.page,
                                    !.currentPageIndex = e.page,
                                    !.hasChanged = FALSE,
                                    !.lastCoords = Some(e.coords),
                                    !.preInteractionState =
                                        Some(Serialize(s2.pages[e.page].strokes))]
                          texts == { i \in 1..Len(CurrentStrokes(s3)) :
                                        TextHit(CurrentStrokes(s3)[i], e.coords) }
                      IN  CASE s3.tool = "lasso" -> LassoDown(s3, e.coords)
                            [] s3.tool = "text" ->
                                 IF texts # {}
                                 THEN TriggerTextEdit(s3,
                                        CurrentStrokes(s3)[CHOOSE i \in texts :
                                                              \A k \in texts : i <= k])
                                 ELSE CreateTextElement(s3, e.coords, "", 0)
                            [] s3.tool = "image" -> s3
                            [] s3.tool = "laser" ->
                                 [s3 EXCEPT !.laserTrail = << LaserPoint(e.coords) >>,
                                            !.isDrawing = TRUE]
                            [] s3.tool = "zoom" ->
                                 [s3 EXCEPT !.isMoving = TRUE,
                                            !.moveStart = Some(Pt(e.clientX, e.clientY)),
                                            !.scrollStart = s3.scroll]
                            [] OTHER -> OpenStroke(s3, e.coords)


----------------------------------------------------------------------------
(* handlePointerMove (lines 2535-2657) *)

\* element.scrollLeft/scrollTop never leave the scrollable range
ClampScroll(v) == Max2(0, Min2(ScrollRange, v))

\* every object of `refs` gets f applied, wherever it is referenced from
MapRefs(s, refs, f(_)) ==
    [s EXCEPT
        !.pages = [i \in 1..Len(s.pages) |->
                      [s.pages[i] EXCEPT !.strokes =
                          [k \in 1..Len(s.pages[i].strokes) |->
                              IF s.pages[i].strokes[k].ref \in refs
                              THEN f(s.pages[i].strokes[k])
                              ELSE s.pages[i].strokes[k]]]],
        !.selectedStrokes = [k \in 1..Len(s.selectedStrokes) |-> f(s.selectedStrokes[k])]]

MapPoints(pts, g(_)) == [i \in 1..Len(pts) |-> g(pts[i])]

MapLasso(s, g(_)) ==
    IF IsNull(s.lassoPath) THEN s
    ELSE [s EXCEPT !.lassoPath = Some(MapPoints(Val(s.lassoPath), g))]

\* lines 2601-2614
MoveSelectionSkipsLasso(s, coords) ==
    LET dx == coords.x - Val(s.moveStart).x
        dy == coords.y - Val(s.moveStart).y
        Shift(p) == Pt(p.x + dx, p.y + dy)
        ShiftStroke(st) ==
            IF IsBox(st) THEN [st EXCEPT !.x = @ + dx, !.y = @ + dy]
            ELSE [st EXCEPT !.points = MapPoints(@, Shift)]
        moved == MapRefs(s, StrokeRefs(s.selectedStrokes), ShiftStroke)
    IN  [moved EXCEPT !.moveStart = Some(coords), !.hasChanged = TRUE]

MoveSelection(s, coords) ==
    LET dx == coords.x - Val(s.moveStart).x
        dy == coords.y - Val(s.moveStart).y
        Shift(p) == Pt(p.x + dx, p.y + dy)
        ShiftStroke(st) ==
            IF IsBox(st) THEN [st EXCEPT !.x = @ + dx, !.y = @ + dy]
            ELSE [st EXCEPT !.points = MapPoints(@, Shift)]
        moved == MapLasso(MapRefs(s, StrokeRefs(s.selectedStrokes), ShiftStroke), Shift)
    IN  [moved EXCEPT !.moveStart = Some(coords), !.hasChanged = TRUE]

\* variant: the average of the two factors is taken as it is
ResizeScaleUnclamped(bounds, dx, dy) ==
    LET sx == IF bounds.w + dx > 0 THEN Frac(bounds.w + dx, bounds.w) ELSE Frac(1, 10)
        sy == IF bounds.h + dy > 0 THEN Frac(bounds.h + dy, bounds.h) ELSE Frac(1, 10)
    IN  Frac(sx.n * sy.d + sy.n * sx.d, 2 * sx.d * sy.d)

\* the uniform factor of one resize step, as a fraction (lines 2619-2625)
ResizeScale(bounds, dx, dy) ==
    LET sx == IF bounds.w + dx > 0 THEN Frac(bounds.w + dx, bounds.w) ELSE Frac(1, 10)
        sy == IF bounds.h + dy > 0 THEN Frac(bounds.h + dy, bounds.h) ELSE Frac(1, 10)
        avg == Frac(sx.n * sy.d + sy.n * sx.d, 2 * sx.d * sy.d)
    IN  IF FracLess(avg, Frac(1, 10)) THEN Frac(1, 10) ELSE avg

\* v * f for a fraction f, when the product is an integer
Times(v, f) == (v * f.n) \div f.d
TimesExact(v, f) == (v * f.n) % f.d = 0

\* variant: the drag is measured from where the pointer went down
ResizeSelectionFromDown(s, coords) ==
    LET bounds == GetSelectionBounds(s)
        b == Val(bounds)
        k == ResizeScale(b, coords.x - Val(s.lastCoords).x, coords.y - Val(s.lastCoords).y)
        Scale(p) == Pt(b.x + Times(p.x - b.x, k), b.y + Times(p.y - b.y, k))
        ScaleStroke(st) ==
            IF IsBox(st)
            THEN LET sized == [st EXCEPT !.x = b.x + Times(st.x - b.x, k),
                                         !.y = b.y + Times(st.y - b.y, k),
                                         !.w = Times(OrDefault(st.w, 50), k),
                                         !.h = Times(OrDefault(st.h, 20), k)]
                 IN  IF st.type = "text"
                     THEN [sized EXCEPT !.size = Times(OrDefault(st.size, 20), k)]
                     ELSE sized
            ELSE [st EXCEPT !.points = MapPoints(@, Scale)]
        scaled == MapLasso(MapRefs(s, StrokeRefs(s.selectedStrokes), ScaleStroke), Scale)
    IN  IF IsNull(bounds) THEN s
        ELSE IF b.w = 0 \/ b.h = 0 THEN s
        ELSE [scaled EXCEPT !.moveStart = Some(coords), !.hasChanged = TRUE]

\* lines 2616-2655
ResizeSelection(s, coords) ==
    LET bounds == GetSelectionBounds(s)
        b == Val(bounds)
        k == ResizeScale(b, coords.x - Val(s.moveStart).x, coords.y - Val(s.moveStart).y)
        Scale(p) == Pt(b.x + Times(p.x - b.x, k), b.y + Times(p.y - b.y, k))
        ScaleStroke(st) ==
            IF IsBox(st)
            THEN LET sized == [st EXCEPT !.x = b.x + Times(st.x - b.x, k),
                                         !.y = b.y + Times(st.y - b.y, k),
                                         !.w = Times(OrDefault(st.w, 50), k),
                                         !.h = Times(OrDefault(st.h, 20), k)]
                 IN  IF st.type = "text"
                     THEN [sized EXCEPT !.size = Times(OrDefault(st.size, 20), k)]
                     ELSE sized
            ELSE [st EXCEPT !.points = MapPoints(@, Scale)]
        scaled == MapLasso(MapRefs(s, StrokeRefs(s.selectedStrokes), ScaleStroke), Scale)
    IN  IF IsNull(bounds) THEN s
        ELSE IF b.w = 0 \/ b.h = 0 THEN s
        ELSE [scaled EXCEPT !.moveStart = Some(coords), !.hasChanged = TRUE]

\* whether every coordinate a resize step computes is an integer
ResizeExact(s, coords) ==
    LET bounds == GetSelectionBounds(s)
        b == Val(bounds)
        k == ResizeScale(b, coords.x - Val(s.moveStart).x, coords.y - Val(s.moveStart).y)
        PtOk(p) == TimesExact(p.x - b.x, k) /\ TimesExact(p.y - b.y, k)
        StrokeOk(st) ==
            IF IsBox(st)
            THEN /\ PtOk(Pt(st.x, st.y))
                 /\ TimesExact(OrDefault(st.w, 50), k) /\ TimesExact(OrDefault(st.h, 20), k)
                 /\ (st.type = "text" => TimesExact(OrDefault(st.size, 20), k))
            ELSE \A i \in 1..Len(st.points) : PtOk(st.points[i])
    IN  IF IsNull(bounds) THEN TRUE
        ELSE IF b.w = 0 \/ b.h = 0 THEN TRUE
        ELSE /\ \A i \in 1..Len(s.selectedStrokes) : StrokeOk(s.selectedStrokes[i])
             /\ IF IsNull(s.lassoPath) THEN TRUE
                ELSE \A i \in 1..Len(Val(s.lassoPath)) : PtOk(Val(s.lassoPath)[i])

\* the jitter filter: whether the smoothed point is stored (lines 2574-2578);
\* the blend is half the raw displacement, compared doubled
Significant(s, lastPoint, coords) ==
    LET eps == IF s.tool = "highlighter" THEN 3 ELSE 1
    IN  Sq(coords.x - lastPoint.x) + Sq(coords.y - lastPoint.y) > Sq(2 * eps)

\* lines 2567-2588
CaptureKeepsEveryPoint(s, coords) ==
    LET cs == Val(s.currentStroke)
        lastPoint == cs.points[Len(cs.points)]
        smoothed == Pt((lastPoint.x + coords.x) \div 2, (lastPoint.y + coords.y) \div 2)
        s1 == [s EXCEPT !.currentStroke = Some([cs EXCEPT !.points = Append(@, smoothed)])]
    IN  IF s.tool = "eraser" THEN PerformErase(s1, Val(s1.currentStroke)) ELSE s1

Capture(s, coords) ==
    LET cs == Val(s.currentStroke)
        lastPoint == cs.points[Len(cs.points)]
        smoothed == Pt((lastPoint.x + coords.x) \div 2, (lastPoint.y + coords.y) \div 2)
        s1 == IF Significant(s, lastPoint, coords)
              THEN Render([s EXCEPT !.currentStroke =
                                        Some([cs EXCEPT !.points = Append(@, smoothed)])])
              ELSE s
    IN  IF s.tool # "eraser" THEN s1
        ELSE IF Len(Val(s1.currentStroke).points) < 2 THEN s1
        ELSE Render(PerformErase(s1, Val(s1.currentStroke)))

\* the smoothing blend is integral
BlendExact(s, coords) ==
    IF ~s.isDrawing \/ IsNull(s.currentStroke) THEN TRUE
    ELSE LET cs == Val(s.currentStroke)
             lastPoint == cs.points[Len(cs.points)]
         IN  (lastPoint.x + coords.x) % 2 = 0 /\ (lastPoint.y + coords.y) % 2 = 0

\* variant: the gesture forgets the history
NavigateDropsHistory(s) == [s EXCEPT !.undoStack = << >>]

\* the two-pointer branch (lines 2538-2555)
Navigate(s) ==
    LET center == GetGestureCenter(s)
        last == Val(s.lastGestureCenter)
        panned == [s EXCEPT !.scroll = Pt(ClampScroll(s.scrollStart.x - (center.x - last.x)),
                                         ClampScroll(s.scrollStart.y - (center.y - last.y)))]
        dist == GetGestureDist(s)
    IN  IF s.lastGestureDist # 0 /\ dist > 0
           /\ Abs(s.lastGestureDist - dist) * 100 > s.lastGestureDist
        THEN [SetZoom(panned, Frac(s.scale.n * dist, s.scale.d * s.lastGestureDist))
              EXCEPT !.lastGestureDist = dist]
        ELSE panned

\* e = [pointerId, clientX, clientY, coords]: coords is what getCoordinates
\* returns for the active canvas
HandlePointerMove(s, e) ==
    LET s1 == [s EXCEPT !.activePointers = PointersSet(@, e.pointerId, e.clientX, e.clientY)]
    IN  IF s1.gestureMode = "nav" THEN Navigate(s1)
        ELSE IF s1.activeCanvas = 0 THEN s1
        ELSE IF s1.isDrawing
        THEN IF s1.tool = "laser"
             THEN [s1 EXCEPT !.laserTrail = Append(@, LaserPoint(e.coords))]
             ELSE IF IsNull(s1.currentStroke) THEN [s1 EXCEPT !.threw = TRUE]
             ELSE Capture(s1, e.coords)
        ELSE IF s1.tool = "zoom" /\ s1.isMoving
        THEN [s1 EXCEPT !.scroll =
                 Pt(ClampScroll(s1.scrollStart.x - (e.clientX - Val(s1.moveStart).x)),
                    ClampScroll(s1.scrollStart.y - (e.clientY - Val(s1.moveStart).y)))]
        ELSE IF s1.isLassoing
        THEN IF IsNull(s1.lassoPath) THEN [s1 EXCEPT !.threw = TRUE]
             ELSE Render([s1 EXCEPT !.lassoPath = Some(Append(Val(@), e.coords))])
        ELSE IF s1.isMoving THEN Render(MoveSelection(s1, e.coords))
        ELSE IF s1.isResizing
        THEN IF IsNull(GetSelectionBounds(s1)) THEN s1
             ELSE IF Val(GetSelectionBounds(s1)).w = 0 \/ Val(GetSelectionBounds(s1)).h = 0
             THEN s1
             ELSE Render(ResizeSelection(s1, e.coords))
        ELSE s1


----------------------------------------------------------------------------
(* handlePointerUp (lines 2659-2726) *)

ShowLassoMenu(s) == [s EXCEPT !.menuVisible = TRUE]

\* lines 2670-2682; held: the pause before release exceeded 1500 ms
FinishStrokeNoFlag(s, held) ==
    LET recognized ==
            IF s.tool = "shape" \/ (s.tool # "eraser" /\ held)
            THEN RecognizeAndStraightenShape(s.currentStroke)
            ELSE s.currentStroke
        committed ==
            IF s.tool # "eraser"
            THEN SetCurrentStrokes(s, Append(CurrentStrokes(s), Val(recognized)))
            ELSE s
    IN  [committed EXCEPT !.currentStroke = Null, !.isDrawing = FALSE]

FinishStroke(s, held) ==
    LET recognized ==
            IF s.tool = "shape" \/ (s.tool # "eraser" /\ held)
            THEN RecognizeAndStraightenShape(s.currentStroke)
            ELSE s.currentStroke
        committed ==
            IF s.tool # "eraser"
            THEN [SetCurrentStrokes(s, Append(CurrentStrokes(s), Val(recognized)))
                  EXCEPT !.hasChanged = TRUE]
            ELSE s
    IN  [committed EXCEPT !.currentStroke = Null, !.isDrawing = FALSE]

\* lines 2683-2713
FinishLasso(s) ==
    LET s1 == [s EXCEPT !.isLassoing = FALSE]
    IN  IF IsNull(s1.lassoPath) THEN [s1 EXCEPT !.threw = TRUE]
        ELSE LET picked == IF Len(Val(s1.lassoPath)) > LassoTapMax
                           THEN FindSelectedStrokes(s1)
                           ELSE TapSelect(s1, Val(s1.lassoPath)[1])
             IN  IF Len(picked.selectedStrokes) > 0 THEN ShowLassoMenu(picked) ELSE picked

\* lines 2722-2725
RecordHistory(s) ==
    IF s.hasChanged
    THEN TriggerAutoSave(PushUndo(s, s.currentPageIndex, s.preInteractionState))
    ELSE s

\* lines 2660-2664; e: Null (the window listener's call) or the pointerId of
\* the event
ForgetPointer(s, e) ==
    IF IsNull(e) THEN s ELSE [s EXCEPT !.activePointers = PointersDelete(@, Val(e))]

ResetGestureMode(s) ==
    IF Len(s.activePointers) = 0 THEN [s EXCEPT !.gestureMode = "null"] ELSE s

\* lines 2666-2668
EndLaser(s) == IF s.tool = "laser" THEN [s EXCEPT !.isDrawing = FALSE] ELSE s

\* lines 2670-2718: the interaction in progress ends
FinishInteraction(s, held) ==
    IF s.isDrawing
    THEN IF IsNull(s.currentStroke) /\ s.tool # "eraser"
         THEN [s EXCEPT !.threw = TRUE]
         ELSE FinishStroke(s, held)
    ELSE IF s.isLassoing THEN FinishLasso(s)
    ELSE IF s.isMoving THEN [s EXCEPT !.isMoving = FALSE]
    ELSE IF s.isResizing THEN [s EXCEPT !.isResizing = FALSE]
    ELSE s

\* lines 2720-2725, not reached when the handler threw
RenderAndRecord(s) == IF s.threw THEN s ELSE RecordHistory(Render(s))

HandlePointerUp(s, e, held) ==
    RenderAndRecord(FinishInteraction(EndLaser(ResetGestureMode(ForgetPointer(s, e))), held))

\* the window's pointerup listener (lines 1918-1922)
WindowPointerUp(s, held) ==
    IF s.isDrawing \/ s.isLassoing \/ s.isMoving
    THEN HandlePointerUp(s, Null, held)
    ELSE s

----------------------------------------------------------------------------
(* Toolbar (lines 1925-1961, 2050-2060) *)

SelectTool(s, t) ==
    LET s1 == [s EXCEPT !.tool = t, !.isDrawing = FALSE, !.currentStroke = Null,
                        !.isLassoing = FALSE, !.isMoving = FALSE, !.lassoPath = Null]
    IN  IF t \in PresetTools
        THEN [s1 EXCEPT !.lineWidth = PresetSize(t), !.color = PresetColor(t)]
        ELSE s1

SetEraseMode(s, whole) == [s EXCEPT !.eraseEntireStroke = whole]

----------------------------------------------------------------------------
(* Images (lines 2154-2171) *)

\* addImageToCanvas: the decoding of the image is pending until onload
AddImageToCanvas(s, src) ==
    [s EXCEPT !.imageLoads = Append(@, [src |-> src, x |-> 150, y |-> 150])]

\* img.onload of the k-th pending image; h = 200 * (img.height / img.width)
ImageOnload(s, k, h) ==
    LET load == s.imageLoads[k]
        s1 == PushUndo(s, s.currentPageIndex, Some(Serialize(CurrentStrokes(s))))
        ref == FreshRefs(1, LiveRefs(s))[1]
    IN  SaveNotes([SetCurrentStrokes(s1, Append(CurrentStrokes(s1),
                ImageStroke(load.src, load.x, load.y, ImageW, h, ref)))
         EXCEPT !.imageLoads = SelectSeqIdx(s.imageLoads, LAMBDA i : i # k)])

----------------------------------------------------------------------------
(* Lasso menu (lines 3063-3132) *)

ShiftBy(st, dx, dy) ==
    IF IsBox(st) THEN [st EXCEPT !.x = @ + dx, !.y = @ + dy]
    ELSE [st EXCEPT !.points = [i \in 1..Len(st.points) |->
                                   Pt(st.points[i].x + dx, st.points[i].y + dy)]]

DuplicateSelection(s) ==
    IF Len(s.selectedStrokes) = 0 THEN s
    ELSE LET s1 == PushUndo(s, s.currentPageIndex, Some(Serialize(CurrentStrokes(s))))
             copies == Parse(Serialize(s.selectedStrokes), LiveRefs(s))
             newStrokes == [i \in 1..Len(copies) |-> ShiftBy(copies[i], DupOffset, DupOffset)]
         IN  SaveNotes([SetCurrentStrokes(s1, CurrentStrokes(s1) \o newStrokes)
              EXCEPT !.selectedStrokes = newStrokes])

CopySelection(s) == [s EXCEPT !.clipboard = Some(Serialize(s.selectedStrokes))]

DeleteWithHistory(s) ==
    LET strokes == CurrentStrokes(s)
        refs == StrokeRefs(s.selectedStrokes)
        s1 == PushUndo(s, s.currentPageIndex, Some(Serialize(strokes)))
    IN  [SetCurrentStrokes(s1, SelectSeqIdx(strokes, LAMBDA i : strokes[i].ref \notin refs))
         EXCEPT !.selectedStrokes = << >>, !.lassoPath = Null]

DeleteSelection(s) ==
    LET strokes == CurrentStrokes(s)
        refs == StrokeRefs(s.selectedStrokes)
    IN  [SetCurrentStrokes(s, SelectSeqIdx(strokes, LAMBDA i : strokes[i].ref \notin refs))
         EXCEPT !.selectedStrokes = << >>, !.lassoPath = Null]

CutSelection(s) == DeleteSelection(CopySelection(s))

\* coords: this.lastCoords (Null when undefined)
PasteSelection(s, coords) ==
    IF IsNull(s.clipboard) THEN s
    ELSE LET s1 == PushUndo(s, s.currentPageIndex, Some(Serialize(CurrentStrokes(s))))
             strokes == Parse(Val(s.clipboard), LiveRefs(s))
             xs == Flatten([i \in 1..Len(strokes) |->
                      IF IsBox(strokes[i]) THEN << strokes[i].x >> ELSE StrokeXs(strokes[i])])
             ys == Flatten([i \in 1..Len(strokes) |->
                      IF IsBox(strokes[i]) THEN << strokes[i].y >> ELSE StrokeYs(strokes[i])])
             cx == IF IsNull(coords) THEN 100 ELSE OrDefault(Val(coords).x, 100)
             cy == IF IsNull(coords) THEN 100 ELSE OrDefault(Val(coords).y, 100)
             placed == [i \in 1..Len(strokes) |->
                          ShiftBy(strokes[i], cx - SeqMin(xs), cy - SeqMin(ys))]
         IN  SaveNotes(SetCurrentStrokes(s1, CurrentStrokes(s1) \o placed))

----------------------------------------------------------------------------
(* Pages (lines 1731-1760, 2243-2249) *)

AddPage(s) ==
    SaveNotes([s EXCEPT !.pages = Append(@, [strokes |-> << >>, template |-> "plain"]),
                        !.currentPageIndex = Len(s.pages) + 1])

\* the scroll observer makes the most visible page the current one
ObservePage(s, idx) == [s EXCEPT !.currentPageIndex = idx]

\* openNotebook (lines 3287-3312): data is the stored note's page list; the
\* strokes read from the store are new objects
OpenNotebook(s, data) ==
    LET used == StrokeRefs(s.selectedStrokes) \cup StrokeRefs(s.currentStroke)
        lens == [i \in 1..Len(data) |-> Len(data[i].strokes)]
        Before(i) == Len(Flatten([k \in 1..(i - 1) |-> data[k].strokes]))
        refs == FreshRefs(Before(Len(data) + 1), used)
    IN  [s EXCEPT
            !.pages = [i \in 1..Len(data) |->
                          [data[i] EXCEPT !.strokes =
                              [j \in 1..lens[i] |->
                                  [data[i].strokes[j] EXCEPT !.ref = refs[Before(i) + j]]]]],
            !.currentPageIndex = 1]

\* q without its i-th element, and q with v as its i-th element
\* (Array.splice(i, 1) and Array.splice(i, 0, v), indices from 1)
RemoveAt(q, i) == SubSeq(q, 1, i - 1) \o SubSeq(q, i + 1, Len(q))
InsertAt(q, i, v) == SubSeq(q, 1, i - 1) \o << v >> \o SubSeq(q, i, Len(q))

\* the variant that leaves currentPageIndex alone
ReorderPageKeepsIndex(s, fromIndex, toIndex) ==
    Render(SaveNotes([s EXCEPT
        !.pages = InsertAt(RemoveAt(s.pages, fromIndex), toIndex, s.pages[fromIndex])]))

\* reorderPage (lines 3969-3986), page indices from 1
ReorderPage(s, fromIndex, toIndex) ==
    Render(SaveNotes([s EXCEPT
        !.pages = InsertAt(RemoveAt(s.pages, fromIndex), toIndex, s.pages[fromIndex]),
        !.currentPageIndex =
            IF @ = fromIndex THEN toIndex
            ELSE IF fromIndex < @ /\ toIndex >= @ THEN @ - 1
            ELSE IF fromIndex > @ /\ toIndex <= @ THEN @ + 1
            ELSE @]))

\* deletePage (lines 3988-4010), the confirm dialog accepted
DeletePage(s, index) ==
    IF Len(s.pages) = 1 THEN s
    ELSE Render(SaveNotes([s EXCEPT
            !.pages = RemoveAt(s.pages, index),
            !.currentPageIndex =
                IF @ >= Len(s.pages) THEN Len(s.pages) - 1
                ELSE IF @ > index THEN @ - 1
                ELSE @]))

----------------------------------------------------------------------------
(* Library: notebooks, tabs and the store (lines 3287-3429, 4012-4080).    *)
(* A notebook's identifier is a positive number, 0 stands for null; the    *)
(* store maps an identifier to the value of the key 'note_<id>', Null when *)
(* the key is absent.                                                      *)

NotebookIds == 1..MaxNotebooks

NoNotes == [id \in NotebookIds |-> Null]

Without(q, v) == SelectSeq(q, LAMBDA x : x # v)

DefaultPage == [strokes |-> << >>, template |-> "plain"]

\* the page importPDF makes of a page of the file (lines 4053-4057)
PdfPage == [strokes |-> << >>, template |-> "plain", pdfBackground |-> "pdf"]

\* openNotebook from `if (data)` on (lines 3297-3310)
ShowNotebook(s, id) ==
    IF IsNull(s.store[id]) THEN s
    ELSE Render([OpenNotebook(s, Val(s.store[id])) EXCEPT
                    !.activeNotebookId = id,
                    !.openNotebookIds = IF id \in Range(@) THEN @ ELSE Append(@, id)])

\* openNotebook(id) (lines 3287-3312)
OpenNotebookId(s, id) ==
    IF s.activeNotebookId = id THEN s ELSE ShowNotebook(SaveNotes(s), id)

\* createNotebook (lines 3313-3332); id is the new identifier
CreateNotebook(s, id) ==
    OpenNotebookId([s EXCEPT !.notebooks = Append(@, id),
                             !.store[id] = Some(<< DefaultPage >>)], id)

\* deleteItem from line 3364 on: the notebook that was active is replaced
LeaveDeleted(s, id) ==
    IF s.activeNotebookId # id THEN s
    ELSE IF Len(s.openNotebookIds) > 0 THEN OpenNotebookId(s, s.openNotebookIds[1])
    ELSE [s EXCEPT !.activeNotebookId = 0]

\* deleteItem(id, 'notebook') (lines 3349-3379), the confirm dialog accepted
DeleteItem(s, id) ==
    LeaveDeleted([s EXCEPT !.store[id] = Null,
                           !.openNotebookIds = Without(@, id),
                           !.notebooks = Without(@, id)], id)

\* closeTab from line 3412 on
LeaveClosed(s, id) ==
    IF s.activeNotebookId # id THEN s
    ELSE IF Len(s.openNotebookIds) > 0 THEN OpenNotebookId(s, s.openNotebookIds[1])
    ELSE IF Len(s.notebooks) > 0 THEN OpenNotebookId(s, s.notebooks[1])
    ELSE Render([s EXCEPT !.currentPageIndex = 1, !.pages = << DefaultPage >>,
                          !.activeNotebookId = 0])

\* closeTab(id) (lines 3408-3429)
CloseTab(s, id) == LeaveClosed([s EXCEPT !.openNotebookIds = Without(@, id)], id)

\* importPDF, lines 4029-4044: without an active notebook a new one, id, is
\* made and the pages are reset
NotebookForPdf(s, id) ==
    IF s.activeNotebookId # 0 THEN s
    ELSE [s EXCEPT !.notebooks = Append(@, id), !.activeNotebookId = id, !.pages = << >>]

\* importPDF of one file (lines 4012-4080): count pages of the file are
\* appended; failed: reading the file then threw (it is not a valid PDF, or
\* one of its pages cannot be read), which the handler catches
ImportPDF(s, id, count, failed) ==
    IF failed
    THEN [NotebookForPdf(s, id) EXCEPT !.pages = @ \o [i \in 1..count |-> PdfPage]]
    ELSE Render(SaveNotes([NotebookForPdf(s, id) EXCEPT
                              !.pages = @ \o [i \in 1..count |-> PdfPage]]))

\* init() (lines 1691-1715): index and tabs are the stored lists
\* 'lumi_notebooks_list' and 'open_tabs_list', last the stored
\* 'last_active_id' and id the identifier a new notebook would get
StartWith(s, last, id) ==
    IF Len(s.openNotebookIds) > 0
    THEN OpenNotebookId(s, IF last \in Range(s.openNotebookIds) THEN last
                           ELSE s.openNotebookIds[1])
    ELSE IF Len(s.notebooks) > 0 THEN OpenNotebookId(s, s.notebooks[1])
    ELSE CreateNotebook(s, id)

InitApp(s, index, tabs, last, id) ==
    Render(StartWith([s EXCEPT !.notebooks = index, !.openNotebookIds = tabs], last, id))


----------------------------------------------------------------------------
(* Initial state: the constructor (lines 1622-1690) *)

\* `call` is the function call a specification of a function on its own
\* makes: its arguments and, once it has returned, its result
NoCall == [fn |-> "none"]

\* The templates of a page (lines 2973-2974). While a notebook is open whose
\* pages all differ in their templates, the template tells the pages apart
\* and had[t] holds the stroke lists the page of template t has had.
Templates == {"plain", "dotted", "grid"}
NoLists == [t \in Templates |-> {}]

Constructed ==
    /\ tool = "pen"
    /\ isDrawing = FALSE
    /\ isLassoing = FALSE
    /\ isMoving = FALSE
    /\ isResizing = FALSE
    /\ lineWidth = PresetSize("pen")
    /\ color = PresetColor("pen")
    /\ eraseEntireStroke = TRUE
    /\ hasChanged = FALSE
    /\ pages = << [strokes |-> << >>, template |-> "plain"] >>
    /\ currentPageIndex = 1
    /\ currentStroke = Null
    /\ lassoPath = Null
    /\ selectedStrokes = << >>
    /\ moveStart = Null
    /\ undoStack = << >>
    /\ redoStack = << >>
    /\ preInteractionState = Null
    /\ lastCoords = Null
    /\ activePointers = << >>
    /\ gestureMode = "null"
    /\ activeCanvas = 0
    /\ scale = Frac(1, 1)
    /\ scroll = Pt(0, 0)
    /\ scrollStart = Pt(0, 0)
    /\ lastGestureDist = 0
    /\ lastGestureCenter = Null
    /\ clipboard = Null
    /\ textInputs = << >>
    /\ imageLoads = << >>
    /\ idClock = 1
    /\ laserTrail = << >>
    /\ frames = 0
    /\ notebooks = << >>
    /\ activeNotebookId = 0
    /\ openNotebookIds = << >>
    /\ autoSaveTimer = FALSE
    /\ menuVisible = FALSE
    /\ threw = FALSE
    /\ lastOp = "init"
    /\ discarded = {}
    /\ pressed = {}
    /\ run = [phase |-> "commits", strokes |-> << >>, undos |-> 0]
    /\ atDown = << >>
    /\ opener = 0
    /\ mover = 0
    /\ downLasso = Null
    /\ sample = Null
    /\ had = NoLists
    /\ deleted = {}

\* a first start: the store holds no notebook
Init == Constructed /\ store = NoNotes /\ call = NoCall

----------------------------------------------------------------------------
(* Events.  Every event is one handler run to completion (the program is   *)
(* single-threaded); lastOp names the handler that ran last and, for a     *)
(* pointer-up, what it finished.                                           *)

\* Bookkeeping of the behaviour so far, for the properties about runs of
\* commits and undos: run.strokes are the strokes committed one after the
\* other since the start, run.undos the undos that followed them, and the
\* phase is "off" once any other event has happened.
StrokeUps == {"pointerup:stroke", "pointercancel:stroke", "windowup:stroke"}

\* the stroke lists of the pages, serialized
PageLists == [i \in 1..Len(pages) |-> Serialize(pages[i].strokes)]

\* a notebook is open whose pages differ in their templates
TellsApart(id, pgs) ==
    /\ id # 0
    /\ \A i, j \in 1..Len(pgs) : i # j => pgs[i].template # pgs[j].template

\* deleted holds the notebooks deleteItem has removed from the library;
\* atDown is PageLists as the last pointer-down found it and downLasso the
\* lasso path as the pointer-down of the move or resize gesture in progress
\* found it; opener is the pointer whose pointer-down opened the stroke in
\* progress and mover the pointer of the move event that ran last (0 when
\* there is none); sample is the raw position of the move event that ran
\* last, while a stroke is being captured
TrackAt(p, c) ==
    /\ had' = IF TellsApart(activeNotebookId', pages')
              THEN [t \in Templates |->
                       (IF activeNotebookId' = activeNotebookId THEN had[t] ELSE {})
                           \cup { Serialize(pages'[i].strokes) :
                                    i \in { k \in 1..Len(pages') : pages'[k].template = t } }]
              ELSE NoLists
    /\ deleted' = deleted \cup (Range(notebooks) \ Range(notebooks'))
    /\ sample' = IF lastOp' = "pointermove" /\ isDrawing' /\ ~IsNull(currentStroke')
                 THEN c ELSE Null
    /\ downLasso' = IF ~isMoving' /\ ~isResizing' THEN Null
                    ELSE IF lastOp' = "pointerdown" THEN lassoPath
                    ELSE downLasso
    /\ opener' = IF ~isDrawing' \/ IsNull(currentStroke') THEN 0
                 ELSE IF lastOp' = "pointerdown" THEN p
                 ELSE opener
    /\ mover' = IF lastOp' = "pointermove" THEN p ELSE 0
    /\ call' = call
    /\ atDown' = IF lastOp' = "pointerdown" THEN PageLists ELSE atDown
    /\ run' =
           IF run.phase = "commits" /\ lastOp' \in {"pointerdown", "pointermove"}
              /\ Len(activePointers') = 1
           THEN run
           ELSE IF run.phase = "commits" /\ lastOp' \in StrokeUps /\ ~IsNull(currentStroke)
           THEN [run EXCEPT !.strokes = Append(@, Serialize(currentStroke)[1])]
           ELSE IF run.phase \in {"commits", "undos"} /\ lastOp' = "undo"
                   /\ run.undos < Len(run.strokes)
           THEN [run EXCEPT !.phase = "undos", !.undos = @ + 1]
           ELSE IF run.phase = "undos" /\ lastOp' = "redo" /\ run.undos = Len(run.strokes)
           THEN [run EXCEPT !.phase = "redone"]
           ELSE [phase |-> "off", strokes |-> << >>, undos |-> 0]

TrackBy(p) == TrackAt(p, Null)

Track == TrackBy(0)

\* the document's pointerdown listener closes the lasso menu (lines 2064-2073)
HideMenu(s) == [s EXCEPT !.menuVisible = FALSE]

\* a pointer goes down on the ink canvas of page e.page
PointerDown(e) ==
    /\ Becomes(HideMenu(HandlePointerDown(App, e)))
    /\ lastOp' = "pointerdown"
    /\ discarded' = IF Len(activePointers') >= 2 /\ isDrawing /\ ~IsNull(currentStroke)
                    THEN discarded \cup {Val(currentStroke).id}
                    ELSE discarded
    /\ pressed' = pressed \cup {e.pointerId}
    /\ TrackBy(e.pointerId)

PointerMove(e) ==
    /\ BlendExact(App, e.coords)
    /\ IF isResizing /\ ~isDrawing /\ ~isLassoing /\ ~isMoving /\ gestureMode # "nav"
          /\ ~IsNull(moveStart)
       THEN ResizeExact(App, e.coords) ELSE TRUE
    /\ Becomes(HandlePointerMove(App, e))
    /\ lastOp' = "pointermove"
    /\ UNCHANGED << discarded, pressed >>
    /\ TrackAt(e.pointerId, Some(e.coords))

\* the recognizer's comparison is settled and its corners are integral
RecognizeExact(s) ==
    IF ~s.isDrawing \/ IsNull(s.currentStroke) THEN TRUE
    ELSE Len(Val(s.currentStroke).points) >= RecognizeMinPts
            => /\ EllipseDecided(Val(s.currentStroke).points,
                                 ShapeBox(Val(s.currentStroke).points))
               /\ StraightenExact(ShapeBox(Val(s.currentStroke).points))

UpKind(s) ==
    IF s.tool # "laser" /\ s.isDrawing THEN (IF s.tool = "eraser" THEN "erase" ELSE "stroke")
    ELSE IF s.isLassoing THEN "lasso"
    ELSE IF s.isMoving THEN "move"
    ELSE IF s.isResizing THEN "resize"
    ELSE "none"

\* a pointer is released over the canvas: the canvas listener, then the
\* window listener the event bubbles to
PointerUp(p, held) ==
    /\ RecognizeExact(App)
    /\ Becomes(WindowPointerUp(HandlePointerUp(App, Some(p), held), held))
    /\ lastOp' = "pointerup:" \o UpKind(App) \o (IF held THEN ":held" ELSE "")
    /\ pressed' = pressed \ {p}
    /\ UNCHANGED discarded
    /\ TrackBy(p)

\* pointercancel reaches the canvas listener only
PointerCancel(p, held) ==
    /\ RecognizeExact(App)
    /\ Becomes(HandlePointerUp(App, Some(p), held))
    /\ lastOp' = "pointercancel:" \o UpKind(App)
    /\ pressed' = pressed \ {p}
    /\ UNCHANGED discarded
    /\ TrackBy(p)

\* a pointer is released outside the canvas: the window listener only
PointerUpOutside(p, held) ==
    /\ RecognizeExact(App)
    /\ Becomes(WindowPointerUp(App, held))
    /\ lastOp' = "windowup:" \o (IF isDrawing \/ isLassoing \/ isMoving THEN UpKind(App) ELSE "none")
    /\ pressed' = pressed \ {p}
    /\ UNCHANGED discarded
    /\ TrackBy(p)

ClickTool(t) ==
    /\ Becomes(HideMenu(SelectTool(App, t)))
    /\ lastOp' = "tool"
    /\ UNCHANGED << discarded, pressed >>
    /\ Track

ClickEraseMode(whole) ==
    /\ eraseEntireStroke # whole
    /\ Becomes(HideMenu(SetEraseMode(App, whole)))
    /\ lastOp' = "erasemode"
    /\ UNCHANGED << discarded, pressed >>
    /\ Track

ClickUndo ==
    /\ Becomes(HideMenu(Undo(App)))
    /\ lastOp' = "undo"
    /\ UNCHANGED << discarded, pressed >>
    /\ Track

\* the Undo button is activated from the keyboard: its click listener runs
\* and no pointerdown reaches the document before it (line 2076)
KeyUndo ==
    /\ Becomes(Undo(App))
    /\ lastOp' = "undo"
    /\ UNCHANGED << discarded, pressed >>
    /\ Track

ClickRedo ==
    /\ Becomes(HideMenu(Redo(App)))
    /\ lastOp' = "redo"
    /\ UNCHANGED << discarded, pressed >>
    /\ Track

ClickAddPage ==
    /\ Becomes(HideMenu(AddPage(App)))
    /\ lastOp' = "addpage"
    /\ UNCHANGED << discarded, pressed >>
    /\ Track

ScrollToPage(idx) ==
    /\ idx \in 1..Len(pages)
    /\ idx # currentPageIndex
    /\ Becomes(ObservePage(App, idx))
    /\ lastOp' = "observe"
    /\ UNCHANGED << discarded, pressed >>
    /\ Track

\* the names lastOp gives to a reordering and to a deletion of a page: they
\* carry the arguments of the call
ReorderOp(fromIndex, toIndex) == "reorder:" \o ToString(fromIndex) \o ">" \o ToString(toIndex)
DeletePageOp(index) == "deletepage:" \o ToString(index)

\* a page card of the overview is dropped on another (lines 3947-3955)
DropPage(fromIndex, toIndex) ==
    /\ fromIndex # toIndex
    /\ Becomes(HideMenu(ReorderPage(App, fromIndex, toIndex)))
    /\ lastOp' = ReorderOp(fromIndex, toIndex)
    /\ UNCHANGED << discarded, pressed >>
    /\ Track

\* the delete button of a page card, the dialog confirmed
ClickDeletePage(index) ==
    /\ Becomes(HideMenu(DeletePage(App, index)))
    /\ lastOp' = DeletePageOp(index)
    /\ UNCHANGED << discarded, pressed >>
    /\ Track

\* a PDF file is picked for import
PickPdf(id, count, failed) ==
    /\ Becomes(HideMenu(ImportPDF(App, id, count, failed)))
    /\ lastOp' = IF failed THEN "import:failed" ELSE "import"
    /\ UNCHANGED << discarded, pressed >>
    /\ Track

\* a tab is clicked (line 3394)
ClickTab(id) ==
    /\ Becomes(HideMenu(OpenNotebookId(App, id)))
    /\ lastOp' = "tab"
    /\ UNCHANGED << discarded, pressed >>
    /\ Track

\* the close button of a tab (lines 3396-3400)
ClickCloseTab(id) ==
    /\ Becomes(HideMenu(CloseTab(App, id)))
    /\ lastOp' = "closetab"
    /\ UNCHANGED << discarded, pressed >>
    /\ Track

\* a notebook of the library is deleted, the dialog confirmed
ClickDeleteItem(id) ==
    /\ Becomes(HideMenu(DeleteItem(App, id)))
    /\ lastOp' = "deleteitem"
    /\ UNCHANGED << discarded, pressed >>
    /\ Track

\* the debounce timer of the auto-save runs out (lines 3230-3232)
AutoSaveFires ==
    /\ autoSaveTimer
    /\ Becomes(AutoSave(App))
    /\ lastOp' = "autosave"
    /\ UNCHANGED << discarded, pressed >>
    /\ Track

\* init() runs to its end: the listeners are attached last, so no event is
\* handled before it
Start(index, tabs, last, id) ==
    /\ lastOp = "init"
    /\ Becomes(InitApp(App, index, tabs, last, id))
    /\ lastOp' = "start"
    /\ UNCHANGED << discarded, pressed >>
    /\ Track

ClickReelImage(src) ==
    /\ Becomes(HideMenu(AddImageToCanvas(App, src)))
    /\ lastOp' = "reel"
    /\ UNCHANGED << discarded, pressed >>
    /\ Track

ImageLoaded(k, h) ==
    /\ k \in 1..Len(imageLoads)
    /\ Becomes(ImageOnload(App, k, h))
    /\ lastOp' = "imageload"
    /\ UNCHANGED << discarded, pressed >>
    /\ Track

\* Enter or blur on the k-th text input, holding what the user typed
CommitText(k, typed, width) ==
    /\ k \in 1..Len(textInputs)
    /\ Becomes(FinalizeText([App EXCEPT !.textInputs[k].value = typed], k, width))
    /\ lastOp' = IF typed # "" THEN "text" ELSE "textempty"
    /\ UNCHANGED << discarded, pressed >>
    /\ Track

MenuCut ==
    /\ menuVisible
    /\ Becomes(HideMenu(CutSelection(App)))
    /\ lastOp' = "cut"
    /\ UNCHANGED << discarded, pressed >>
    /\ Track

MenuCopy ==
    /\ menuVisible
    /\ Becomes(HideMenu(CopySelection(App)))
    /\ lastOp' = "copy"
    /\ UNCHANGED << discarded, pressed >>
    /\ Track

MenuDuplicate ==
    /\ menuVisible
    /\ Becomes(HideMenu(DuplicateSelection(App)))
    /\ lastOp' = "duplicate"
    /\ UNCHANGED << discarded, pressed >>
    /\ Track

MenuDelete ==
    /\ menuVisible
    /\ Becomes(HideMenu(DeleteSelection(App)))
    /\ lastOp' = "delete"
    /\ UNCHANGED << discarded, pressed >>
    /\ Track

Paste ==
    /\ ~IsNull(clipboard)
    /\ Becomes(HideMenu(PasteSelection(App, lastCoords)))
    /\ lastOp' = "paste"
    /\ UNCHANGED << discarded, pressed >>
    /\ Track

\* a stored notebook is opened from the library; a stored page list that
\* holds no page is not a notebook's page list
OpenStored(data) ==
    /\ Becomes(HideMenu(OpenNotebook(App, data)))
    /\ lastOp' = IF Len(data) > 0 THEN "open" ELSE "open:invalid"
    /\ UNCHANGED << discarded, pressed >>
    /\ Track

\* the pending call of isPointInLasso returns
CallIsPointInLasso ==
    /\ call.fn = "isPointInLasso" /\ IsNull(call.out)
    /\ call' = [call EXCEPT !.out = Some(IsPointInLasso(call.p, call.poly))]
    /\ Becomes(App)
    /\ lastOp' = "isPointInLasso"
    /\ UNCHANGED << discarded, pressed, run, atDown, opener, mover, downLasso, sample,
                    had, deleted >>

----------------------------------------------------------------------------
(* The general specification *)

PointerIds == {1, 2}
\* two positions on a page; their coordinates are multiples of 10 and of a
\* power of two, which keeps the smoothing blend and a resize to a tenth exact
LogicalPts == { Pt(0, 0), Pt(640, 640) }
ClientPt == Pt(100, 100)

\* the events of a pointer at a logical position of page pg
Down(p, pg, q) ==
    PointerDown([pointerId |-> p, clientX |-> ClientPt.x, clientY |-> ClientPt.y,
                 page |-> pg, coords |-> q])

Move(p, q) ==
    PointerMove([pointerId |-> p, clientX |-> ClientPt.x, clientY |-> ClientPt.y, coords |-> q])

\* strokes on the pages and history entries stay within the bounds
PageRoom == \A i \in 1..Len(pages) : Len(pages[i].strokes) < MaxStrokes

Room ==
    /\ PageRoom
    /\ Len(undoStack) + Len(redoStack) < MaxHist
    /\ idClock <= MaxIds

PathRoom ==
    /\ isDrawing /\ ~IsNull(currentStroke) => Len(Val(currentStroke).points) < MaxPts
    /\ isLassoing /\ ~IsNull(lassoPath) => Len(Val(lassoPath)) < MaxPts

\* pen strokes of one or two fingers and images from the reel, undone and redone
Next ==
    \/ \E p \in PointerIds \ pressed, q \in LogicalPts : Room /\ Down(p, 1, q)
    \/ \E p \in pressed, q \in LogicalPts : PathRoom /\ Move(p, q)
    \/ \E p \in pressed : PointerUp(p, FALSE)
    \/ \E p \in pressed : PointerCancel(p, FALSE)
    \/ \E p \in pressed : PointerUpOutside(p, FALSE)
    \/ ClickUndo
    \/ ClickRedo
    \/ Room /\ Len(imageLoads) < MaxPending /\ ClickReelImage("img")
    \/ PageRoom /\ ImageLoaded(1, ImageW)

Spec == Init /\ [][Next]_vars


\* one finger with the pen and the eraser in both modes, the buttons clicked
\* between the gestures
NextErase ==
    \/ \E q \in LogicalPts : pressed = {} /\ Room /\ Down(1, 1, q)
    \/ \E p \in pressed, q \in LogicalPts : PathRoom /\ Move(p, q)
    \/ \E p \in pressed : PointerUp(p, FALSE)
    \/ \E t \in {"pen", "eraser"} : t # tool /\ pressed = {} /\ ClickTool(t)
    \/ \E b \in BOOLEAN : pressed = {} /\ ClickEraseMode(b)
    \/ pressed = {} /\ ClickUndo
    \/ pressed = {} /\ ClickRedo

SpecErase == Init /\ [][NextErase]_vars

\* one finger with the pen and the lasso on up to MaxPages pages, the lasso
\* menu, and calls of pasteSelection
NextLasso ==
    \/ \E pg \in 1..Len(pages), q \in LogicalPts : pressed = {} /\ Room /\ Down(1, pg, q)
    \/ \E p \in pressed, q \in LogicalPts : PathRoom /\ Move(p, q)
    \/ \E p \in pressed : PointerUp(p, FALSE)
    \/ \E t \in {"pen", "lasso"} : t # tool /\ pressed = {} /\ ClickTool(t)
    \/ pressed = {} /\ Len(pages) < MaxPages /\ ClickAddPage
    \/ pressed = {} /\ MenuCut
    \/ pressed = {} /\ MenuCopy
    \/ pressed = {} /\ Room /\ MenuDuplicate
    \/ pressed = {} /\ MenuDelete
    \/ pressed = {} /\ Room /\ Paste
    \/ pressed = {} /\ ClickUndo
    \/ pressed = {} /\ ClickRedo

SpecLasso == Init /\ [][NextLasso]_vars

\* pen taps of one finger up to MaxDeep strokes, undone and redone; a tap
\* begins only when nothing is undone
NextDeep ==
    \/ pressed = {} /\ redoStack = << >> /\ idClock <= MaxDeep /\ Down(1, 1, Pt(0, 0))
    \/ \E p \in pressed : PointerUp(p, FALSE)
    \/ pressed = {} /\ ClickUndo
    \/ pressed = {} /\ ClickRedo

SpecDeep == Init /\ [][NextDeep]_vars

\* taps of one finger with the pen and the text tool, and what is typed
InputRoom == tool = "text" => Len(textInputs) < MaxPending

NextText ==
    \/ pressed = {} /\ Room /\ InputRoom /\ Down(1, 1, Pt(0, 0))
    \/ \E p \in pressed : PointerUp(p, FALSE)
    \/ \E t \in {"pen", "text"} : t # tool /\ pressed = {} /\ ClickTool(t)
    \/ \E v \in {"", "a"} : PageRoom /\ CommitText(1, v, 40)
    \/ ClickUndo
    \/ ClickRedo

SpecText == Init /\ [][NextText]_vars

\* a finger with the pen and a mouse that moves over the canvas, pressed or
\* not: the canvas listener receives the moves of a hovering pointer too
NextHover ==
    \/ \E p \in PointerIds \ pressed, q \in LogicalPts : Room /\ Down(p, 1, q)
    \/ \E p \in pressed \cup {2}, q \in LogicalPts : PathRoom /\ Move(p, q)
    \/ \E p \in pressed : PointerUp(p, FALSE)
    \/ pressed = {} /\ ClickUndo
    \/ pressed = {} /\ ClickRedo

SpecHover == Init /\ [][NextHover]_vars

\* isPointInLasso on its own: polygons of three to MaxPoly corners of the
\* square (0,0)-(100,0)-(100,100)-(0,100) and its centre, and points in, on
\* and around the square
PolyCorners == { Pt(0, 0), Pt(100, 0), Pt(100, 100), Pt(0, 100), Pt(50, 50) }
Polygons == UNION { [1..n -> PolyCorners] : n \in 3..MaxPoly }
PolyPts == { Pt(50, 50), Pt(150, 150), Pt(0 - 50, 50), Pt(0, 0), Pt(50, 0), Pt(100, 50),
             Pt(25, 75), Pt(75, 25) }

InitInLasso ==
    /\ Constructed
    /\ store = NoNotes
    /\ call \in { [fn |-> "isPointInLasso", p |-> p, poly |-> poly, out |-> Null] :
                    p \in PolyPts, poly \in Polygons }

NextInLasso == CallIsPointInLasso

SpecInLasso == InitInLasso /\ [][NextInLasso]_vars

\* Strokes of a stored note, made in an earlier session (their ids are below
\* this session's): the straight line (0,0)-(100,0) of width 10, a path of
\* four points along it, a dot, a text and an image lying across it.
StoredLine == Freehand(<< Pt(0, 0), Pt(100, 0) >>, "#000000", 10, 10, "pen", 0, 0)
StoredPath ==
    Freehand(<< Pt(0, 0), Pt(30, 0), Pt(70, 0), Pt(100, 0) >>, "#ffeb3b", 15, 3,
             "highlighter", 0 - 1, 0)
StoredDot == Freehand(<< Pt(50, 0) >>, "#000000", 2, 10, "pen", 0 - 2, 0)
StoredText == TextStroke("a", 40, 0 - 10, 40, 20, "#000000", 0)
StoredImage == ImageStroke("img", 0, 0 - 50, ImageW, 100, 0)
StoredStrokes == { StoredLine, StoredPath, StoredDot, StoredText, StoredImage }

\* the notes of one page holding up to MaxStored different strokes
StoredNotes ==
    { << [strokes |-> ss, template |-> "plain"] >> :
        ss \in { q \in UNION { [1..n -> StoredStrokes] : n \in 0..MaxStored } :
                    \A i, j \in 1..Len(q) : i # j => q[i] # q[j] } }

\* where the eraser goes: across the line at x = 50 ((50,-2) then (50,6)
\* blend into the motion segment (50,-2)-(50,2)), past it at a distance
\* between the eraser's radius and its width, and across it in one long
\* step ((50,-20) then (50,60) blend into (50,-20)-(50,20))
RubFrom == { Pt(50, 0 - 2), Pt(50, 20), Pt(50, 0 - 20) }
RubTo == { Pt(50, 6), Pt(50, 28), Pt(50, 60) }

\* a stored note is opened and rubbed with the eraser in both modes
NextRub ==
    \/ \E data \in StoredNotes : lastOp = "init" /\ OpenStored(data)
    \/ \E q \in RubFrom :
          lastOp # "init" /\ pressed = {} /\ tool = "eraser" /\ idClock <= MaxIds
          /\ Down(1, 1, q)
    \/ \E p \in pressed, q \in RubTo : PathRoom /\ idClock <= MaxRubIds /\ Move(p, q)
    \/ \E p \in pressed : PointerUp(p, FALSE)
    \/ tool # "eraser" /\ ClickTool("eraser")
    \/ \E b \in BOOLEAN : b # eraseEntireStroke /\ pressed = {} /\ ClickEraseMode(b)

SpecRub == Init /\ [][NextRub]_vars

\* where the lasso taps: on the line's start, on the text lying across the
\* line, beside the text within the tap tolerance of the line, and far off
TapPts == { Pt(0, 0), Pt(50, 0), Pt(50, 14), Pt(50, 400) }

\* a stored note is opened and tapped with the lasso tool; the lasso path
\* of a gesture grows up to MaxLasso points, past the longest tap
NextTap ==
    \/ \E data \in StoredNotes : lastOp = "init" /\ OpenStored(data)
    \/ \E q \in TapPts :
          lastOp # "init" /\ pressed = {} /\ tool = "lasso" /\ ~threw
          /\ Len(textInputs) < MaxPending /\ Down(1, 1, q)
    \/ \E p \in pressed, q \in { Pt(50, 14), Pt(50, 400) } :
          isLassoing /\ ~IsNull(lassoPath) /\ Len(Val(lassoPath)) < MaxLasso /\ Move(p, q)
    \/ \E p \in pressed : PointerUp(p, FALSE)
    \/ \E p \in pressed : PointerUpOutside(p, FALSE)
    \/ tool # "lasso" /\ ClickTool("lasso")

SpecTap == Init /\ [][NextTap]_vars

\* Strokes of a stored note for the gestures on a selection: the line, the
\* text and the image above and a pen stroke that extends in both directions
StoredBend ==
    Freehand(<< Pt(20, 0 - 20), Pt(60, 20), Pt(100, 0 - 20) >>, "#000000", 2, 10, "pen",
             0 - 3, 0)
DragStrokes == { StoredLine, StoredBend, StoredText, StoredImage }

DragNotes ==
    { << [strokes |-> ss, template |-> "plain"] >> :
        ss \in { q \in UNION { [1..n -> DragStrokes] : n \in 0..MaxStored } :
                    \A i, j \in 1..Len(q) : i # j => q[i] # q[j] } }

\* the loop the lasso is drawn along: around all the strokes of the note
Loop ==
    << Pt(0 - 100, 0 - 100), Pt(100, 0 - 100), Pt(300, 0 - 100), Pt(300, 300),
       Pt(0 - 100, 300), Pt(0 - 100, 100), Pt(0 - 100, 0), Pt(0 - 100, 0 - 50) >>
LoopAt(k) == Loop[((k - 1) % Len(Loop)) + 1]

\* the resize handle of the selection: the bottom-right corner of its bounds
HandleAt ==
    LET bounds == BoundsOf(selectedStrokes)
        b == Val(bounds)
    IN  IF IsNull(bounds) THEN {} ELSE { Pt(b.x + b.w, b.y + b.h) }

\* where the pointer goes down: on the strokes, inside the loop beside them,
\* at the start of the loop, and on the handle
DragFrom == { Pt(50, 0), Pt(200, 200), LoopAt(1) } \cup HandleAt

\* where the handle is dragged: not at all, to twice the width, to twice
\* the width and the height, to a twentieth of both and far beyond the
\* top-left corner
ResizeTo ==
    LET bounds == BoundsOf(selectedStrokes)
        b == Val(bounds)
        from == Val(moveStart)
    IN  IF IsNull(bounds) \/ IsNull(moveStart) THEN {}
        ELSE { from, Pt(from.x + b.w, from.y), Pt(from.x + b.w, from.y + b.h),
               Pt(from.x - (19 * b.w) \div 20, from.y - (19 * b.h) \div 20),
               Pt(from.x - 1000, from.y - 1000) }

\* where the pointer moves next: along the loop while the lasso is drawn,
\* between two positions while the selection is moved, and while it is
\* resized once to one of the handle's targets and then on the spot
DragTo ==
    IF isLassoing /\ ~IsNull(lassoPath)
    THEN IF Len(Val(lassoPath)) < MaxLasso THEN { LoopAt(Len(Val(lassoPath)) + 1) } ELSE {}
    ELSE IF isMoving THEN { Pt(50, 0), Pt(60, 10) }
    ELSE IF isResizing /\ ~IsNull(moveStart)
    THEN IF moveStart = lastCoords THEN ResizeTo ELSE { Val(moveStart) }
    ELSE {}

\* a stored note is opened and its strokes are selected, moved and resized
\* with the lasso tool
NextDrag ==
    \/ \E data \in DragNotes : lastOp = "init" /\ OpenStored(data)
    \/ lastOp = "open" /\ ClickTool("lasso")
    \/ \E q \in DragFrom :
          /\ tool = "lasso" /\ pressed = {} /\ ~threw
          /\ Len(undoStack) + Len(redoStack) < MaxHist
          /\ Len(textInputs) < MaxPending
          /\ Down(1, 1, q)
    \/ \E p \in pressed, q \in DragTo : Move(p, q)
    \/ \E p \in pressed : PointerUp(p, FALSE)
    \/ pressed = {} /\ ClickUndo

SpecDrag == Init /\ [][NextDrag]_vars

\* pen strokes and lasso taps of one finger, the lasso menu, and the Undo
\* button activated from the keyboard, which leaves the menu open
MenuPts == { Pt(0, 0), Pt(40, 40) }

NextMenu ==
    \/ \E q \in MenuPts : pressed = {} /\ Room /\ ~threw /\ Down(1, 1, q)
    \/ \E p \in pressed, q \in MenuPts : PathRoom /\ Move(p, q)
    \/ \E p \in pressed : PointerUp(p, FALSE)
    \/ \E t \in {"pen", "lasso"} : t # tool /\ pressed = {} /\ ClickTool(t)
    \/ KeyUndo
    \/ pressed = {} /\ MenuCut
    \/ pressed = {} /\ MenuCopy
    \/ pressed = {} /\ Room /\ MenuDuplicate
    \/ pressed = {} /\ MenuDelete

SpecMenu == Init /\ [][NextMenu]_vars

\* what the store may hold for a notebook: a note of one page with the line
\* above and, left by an import that failed after `this.pages = []` (line
\* 4042), no page at all
StoredData == { << [strokes |-> << StoredLine >>, template |-> "plain"] >>, << >> }

\* pen strokes of one finger, notebooks opened from the library, pages added,
\* undo and redo
NextOpen ==
    \/ \E pg \in 1..Len(pages), q \in LogicalPts :
          pressed = {} /\ Room /\ ~threw /\ Down(1, pg, q)
    \/ \E p \in pressed, q \in LogicalPts : PathRoom /\ Move(p, q)
    \/ \E p \in pressed : PointerUp(p, FALSE)
    \/ \E data \in StoredData : pressed = {} /\ lastOp # "open" /\ OpenStored(data)
    \/ pressed = {} /\ Len(pages) < MaxPages /\ ClickAddPage
    \/ pressed = {} /\ ClickUndo
    \/ pressed = {} /\ ClickRedo

SpecOpen == Init /\ [][NextOpen]_vars

----------------------------------------------------------------------------
(* Strokes long enough for the recognizer: the pointer traces a ring, a
   square, a triangle or a straight line, the raw position of every move
   chosen so that the smoothed point is the next point of the trace *)

TraceAt == Pt(100, 100)

UnitRing ==
    << Pt(5, 0), Pt(4, 3), Pt(3, 4), Pt(0, 5), Pt(-3, 4), Pt(-4, 3),
       Pt(-5, 0), Pt(-4, -3), Pt(-3, -4), Pt(0, -5), Pt(3, -4), Pt(4, -3) >>

\* points of the ellipse with radii 5 * sx and 5 * sy around TraceAt
Ring(sx, sy) ==
    [i \in 1..Len(UnitRing) |->
        Pt(TraceAt.x + sx * UnitRing[i].x, TraceAt.y + sy * UnitRing[i].y)]

SquareTrace ==
    << Pt(50, 50), Pt(80, 50), Pt(120, 50), Pt(150, 50), Pt(150, 80), Pt(150, 120),
       Pt(150, 150), Pt(120, 150), Pt(80, 150), Pt(50, 150), Pt(50, 120), Pt(50, 80) >>

TriangleTrace ==
    << Pt(100, 50), Pt(120, 90), Pt(140, 130), Pt(150, 150), Pt(120, 150), Pt(90, 150),
       Pt(50, 150), Pt(60, 130), Pt(70, 110), Pt(80, 90), Pt(90, 70) >>

LineTrace == [i \in 1..10 |-> Pt(50 + 10 * i, 100)]

Traces == {Ring(10, 10), Ring(10, 8), Ring(11, 10), SquareTrace, TriangleTrace, LineTrace}

ShapeTools == {"pen", "highlighter", "eraser", "shape"}

\* the trace continues the stroke in progress
Continues(tr) ==
    /\ isDrawing /\ ~IsNull(currentStroke)
    /\ Len(Val(currentStroke).points) < Len(tr)
    /\ SubSeq(tr, 1, Len(Val(currentStroke).points)) = Val(currentStroke).points

\* the raw position whose blend with the last stored point is the next
\* point of the trace
RawFor(tr) ==
    LET k == Len(Val(currentStroke).points)
    IN  Pt(2 * tr[k + 1].x - tr[k].x, 2 * tr[k + 1].y - tr[k].y)

\* raw positions 1, 2, 3 and 4 beyond the last stored point after the blend
Tremors == {Pt(2, 0), Pt(4, 0), Pt(6, 0), Pt(8, 0)}

\* the tremors of a stroke in progress that is still short
TremorMoves ==
    IF isDrawing /\ ~IsNull(currentStroke) /\ Len(Val(currentStroke).points) <= MaxPts
    THEN LET pts == Val(currentStroke).points
         IN  { Pt(pts[Len(pts)].x + d.x, pts[Len(pts)].y + d.y) : d \in Tremors }
    ELSE {}

NextShape ==
    \/ \E t \in ShapeTools : pressed = {} /\ tool # t /\ pages[1].strokes = << >> /\ ClickTool(t)
    \/ \E tr \in Traces : /\ pressed = {} /\ ~threw /\ pages[1].strokes = << >>
                           /\ idClock <= MaxIds
                           /\ Down(1, 1, tr[1])
    \/ \E p \in pressed : \E q \in { RawFor(tr) : tr \in { t \in Traces : Continues(t) } }
                                  \cup TremorMoves :
          Move(p, q)
    \/ \E p \in pressed, held \in BOOLEAN : PointerUp(p, held)

SpecShape == Init /\ [][NextShape]_vars

----------------------------------------------------------------------------
(* Zooming: the wheel with and without Ctrl, and two fingers on a
   horizontal line, the first resting and the second moving *)

Wheel(e) ==
    /\ Becomes(HandleWheel(App, e))
    /\ lastOp' = IF ~e.ctrlKey THEN "wheel" ELSE IF e.deltaY > 0 THEN "wheel:out" ELSE "wheel:in"
    /\ UNCHANGED << discarded, pressed >>
    /\ Track

WheelDeltas == {-100, 100}

\* client x of the two fingers; the steps 400 -> 402 and back change the
\* distance by half a percent
FingerX(p) == IF p = 1 THEN {0} ELSE {200, 400, 402, 800}

Finger(p, x) ==
    [pointerId |-> p, clientX |-> x, clientY |-> ClientPt.y, page |-> 1, coords |-> Pt(50, 50)]

ScaleRoom == scale.n <= MaxScaleTerm /\ scale.d <= MaxScaleTerm

NextZoom ==
    \/ \E p \in PointerIds \ pressed : \E x \in FingerX(p) :
          /\ p = 1 \/ 1 \in pressed
          /\ Room /\ ~threw
          /\ PointerDown(Finger(p, x))
    \/ \E p \in pressed : \E x \in FingerX(p) : ScaleRoom /\ PointerMove(Finger(p, x))
    \/ \E p \in pressed : PointerUp(p, FALSE)
    \/ \E c \in BOOLEAN, dy \in WheelDeltas :
          ScaleRoom /\ Wheel([ctrlKey |-> c, deltaY |-> dy])

SpecZoom == Init /\ [][NextZoom]_vars

----------------------------------------------------------------------------
(* The laser pointer: its trail, the clock and the animation frames *)

\* the clock advances by TickMs: every point of the trail grows older
Tick ==
    /\ laserTrail' = [i \in 1..Len(laserTrail) |->
                         [laserTrail[i] EXCEPT !.age = Min2(@ + TickMs, LaserFade)]]
    /\ UNCHANGED << tool, isDrawing, isLassoing, isMoving, isResizing,
                    lineWidth, color, eraseEntireStroke, hasChanged,
                    pages, currentPageIndex, currentStroke, lassoPath, selectedStrokes,
                    moveStart, undoStack, redoStack, preInteractionState, lastCoords,
                    activePointers, gestureMode, activeCanvas,
                    scale, scroll, scrollStart, lastGestureDist, lastGestureCenter,
                    clipboard, textInputs, imageLoads, idClock, frames, menuVisible,
                    notebooks, activeNotebookId, openNotebookIds, store, autoSaveTimer,
                    threw, lastOp, discarded, pressed, run, atDown, opener, mover,
                    call, downLasso, sample, had, deleted >>

\* the browser runs a requested animation frame: () => this.render()
\* (line 3023)
Frame ==
    /\ frames > 0
    /\ Becomes(Render([App EXCEPT !.frames = @ - 1]))
    /\ lastOp' = "frame"
    /\ UNCHANGED << discarded, pressed >>
    /\ Track

LaserPts == {Pt(0, 0), Pt(40, 40)}

\* the events of the user
LaserInput ==
    \/ tool # "laser" /\ pressed = {} /\ ClickTool("laser")
    \/ \E q \in LaserPts : tool = "laser" /\ pressed = {} /\ ~threw /\ Down(1, 1, q)
    \/ \E p \in pressed, q \in LaserPts : Len(laserTrail) < MaxTrail /\ Move(p, q)
    \/ \E p \in pressed : frames < MaxFrames /\ PointerUp(p, FALSE)

NextLaser == LaserInput \/ Tick \/ Frame

SpecLaser == Init /\ [][NextLaser]_vars

\* time passes, and the browser runs the animation frames that were requested
SpecLaserFair == SpecLaser /\ WF_vars(Tick) /\ WF_vars(Frame)

----------------------------------------------------------------------------
(* A library left by earlier sessions *)

\* a notebook of three empty pages told apart by their templates, and a
\* notebook of one page
Book ==
    << [strokes |-> << >>, template |-> "plain"],
       [strokes |-> << >>, template |-> "dotted"],
       [strokes |-> << >>, template |-> "grid"] >>

Leaflet == << [strokes |-> << StoredDot >>, template |-> "plain"] >>

\* what the store holds at the start: nothing, or the two notebooks, both
\* in the index and open in tabs, the first one active last
Installed ==
    [store |-> [id \in NotebookIds |->
                   IF id = 1 THEN Some(Book) ELSE IF id = 2 THEN Some(Leaflet) ELSE Null],
     index |-> << 1, 2 >>, tabs |-> << 1, 2 >>, last |-> 1]

Fresh == [store |-> NoNotes, index |-> << >>, tabs |-> << >>, last |-> 0]

\* identifiers no notebook has had ('nb_' + Date.now() is new every time)
NewIds == { id \in NotebookIds :
              id \notin Range(notebooks) \cup deleted /\ IsNull(store[id]) }

Started == lastOp # "init"

\* the app starts on the library lib
StartOn(lib) ==
    \E id \in NewIds : store = lib.store /\ Start(lib.index, lib.tabs, lib.last, id)

\* pen taps on the pages of the open notebook, while the id clock has more
\* than one value left to hand out
PenOnPages ==
    \/ \E pg \in 1..Len(pages) :
          Started /\ pressed = {} /\ Room /\ idClock < MaxIds /\ ~threw /\ Down(1, pg, Pt(0, 0))
    \/ \E p \in pressed : PointerUp(p, FALSE)

\* the pages of the first notebook: pen strokes, undo and redo, the view
\* scrolled to a page, the pages reordered and deleted in the overview
NextPages ==
    \/ StartOn(Installed)
    \/ PenOnPages
    \/ Started /\ pressed = {} /\ ClickUndo
    \/ Started /\ pressed = {} /\ ClickRedo
    \/ \E i \in 1..Len(pages) : Started /\ pressed = {} /\ ScrollToPage(i)
    \/ \E i, j \in 1..Len(pages) : Started /\ pressed = {} /\ DropPage(i, j)
    \/ \E i \in 1..Len(pages) : Started /\ pressed = {} /\ ClickDeletePage(i)

\* the constructor has run, the store holds the library
InitPages == Constructed /\ store = Installed.store /\ call = NoCall

SpecPages == InitPages /\ [][NextPages]_vars

\* the library: notebooks opened, closed and deleted, a PDF imported, pen
\* strokes and the auto-save they start
NextLibrary ==
    \/ \E lib \in {Installed, Fresh} : StartOn(lib)
    \/ PenOnPages
    \/ AutoSaveFires
    \/ \E id \in Range(openNotebookIds) : Started /\ pressed = {} /\ ClickTab(id)
    \/ \E id \in Range(openNotebookIds) : Started /\ pressed = {} /\ ClickCloseTab(id)
    \/ \E id \in Range(notebooks) : Started /\ pressed = {} /\ ClickDeleteItem(id)
    \/ \E id \in NewIds, failed \in BOOLEAN :
          /\ Started /\ pressed = {} /\ (activeNotebookId = 0 \/ Len(pages) < MaxPages)
          /\ PickPdf(id, IF failed THEN 0 ELSE 1, failed)
    \/ Started /\ pressed = {} /\ Len(pages) < MaxPages /\ ClickAddPage

\* the constructor has run, the store holds the library or nothing
InitLibrary == Constructed /\ store \in {Installed.store, Fresh.store} /\ call = NoCall

SpecLibrary == InitLibrary /\ [][NextLibrary]_vars

----------------------------------------------------------------------------
(* Pointers released outside the canvas *)

\* a stored note with one pen stroke
ReleaseNote == << [strokes |-> << StoredBend >>, template |-> "plain"] >>

\* the strokes of the page are between MinExtent and MaxExtent wide
InExtent ==
    LET bounds == BoundsOf(pages[1].strokes)
    IN  ~IsNull(bounds) /\ Val(bounds).w \in MinExtent..MaxExtent

\* the note is opened and its stroke is selected, moved and resized with the
\* lasso tool; the pointer is released over the canvas or outside it, and it
\* moves over the canvas when it is not pressed too
NextRelease ==
    \/ lastOp = "init" /\ OpenStored(ReleaseNote)
    \/ lastOp = "open" /\ ClickTool("lasso")
    \/ \E q \in DragFrom :
          /\ tool = "lasso" /\ pressed = {} /\ ~threw
          /\ Len(undoStack) + Len(redoStack) < MaxHist
          /\ InExtent
          /\ Down(1, 1, q)
    \/ \E p \in pressed \cup {1}, q \in DragTo \cup {Pt(200, 200)} :
          /\ p \in pressed => q \in DragTo
          /\ p \notin pressed => tool = "lasso" /\ lastOp # "pointermove"
          /\ Move(p, q)
    \/ \E p \in pressed : PointerUp(p, FALSE)
    \/ \E p \in pressed : PointerUpOutside(p, FALSE)

SpecRelease == Init /\ [][NextRelease]_vars

----------------------------------------------------------------------------
(* Two fingers on a page that holds strokes *)

\* client x of the two fingers
NavX(p) == IF p = 1 THEN {0} ELSE {200, 400}

\* pen strokes and lasso loops of the first finger; the second finger goes
\* down beside it, and the two pan and pinch
NextNav ==
    \/ \E p \in PointerIds \ pressed : \E x \in NavX(p) :
          /\ p = 1 \/ 1 \in pressed
          /\ p = 1 => Room
          /\ ~threw
          /\ PointerDown(Finger(p, x))
    \/ \E p \in pressed : \E x \in NavX(p) :
          ScaleRoom /\ PathRoom /\ PointerMove(Finger(p, x))
    \/ \E p \in pressed : PointerUp(p, FALSE)
    \/ \E t \in {"pen", "lasso"} : t # tool /\ pressed = {} /\ ClickTool(t)

SpecNav == Init /\ [][NextNav]_vars

----------------------------------------------------------------------------
(* Touches below the palm-guard line *)

\* where a palm rests: below the guard line (window.innerHeight - 100)
PalmPt == Pt(ClientPt.x, PalmGuardY + 50)

\* a pointer goes down below the guard line, over page pg
PalmDown(p, pg, q) ==
    PointerDown([pointerId |-> p, clientX |-> PalmPt.x, clientY |-> PalmPt.y,
                 page |-> pg, coords |-> q])

\* pen strokes of one or two pointers, each of which may go down below the
\* guard line
NextPalm ==
    \/ \E p \in PointerIds \ pressed, q \in LogicalPts : Room /\ Down(p, 1, q)
    \/ \E p \in PointerIds \ pressed : Room /\ PalmDown(p, 1, Pt(0, 0))
    \/ \E p \in pressed, q \in LogicalPts : PathRoom /\ Move(p, q)
    \/ \E p \in pressed : PointerUp(p, FALSE)

SpecPalm == Init /\ [][NextPalm]_vars

----------------------------------------------------------------------------
(* Properties of the gesture disambiguator and the history                 *)

AllStrokes == Flatten([i \in 1..Len(pages) |-> pages[i].strokes])
StrokeIds(strokes) == { strokes[i].id : i \in { k \in 1..Len(strokes) : strokes[k].type = "freehand" } }

\* C1: a second pointer going down while a freehand stroke is in progress
\* discards that stroke: the step leaves every page's stroke list as it was
\* and ends the stroke, and no page ever holds the discarded stroke after
\* any later pointer event.
C1_SecondPointerDiscards ==
    /\ [](StrokeIds(AllStrokes) \cap discarded = {})
    /\ [][discarded' # discarded =>
            /\ pages' = pages
            /\ ~isDrawing'
            /\ IsNull(currentStroke')]_vars

C1_Witness ==
    /\ discarded # {}
    /\ lastOp = "pointerup:stroke"
    /\ pressed = {}

\* C2: when a stroke is finalized at pointer-up, the newest undo entry is
\* (page, snapshot) with the snapshot equal to the page's stroke list
\* immediately before the stroke was appended.
C2_SnapshotBeforeAppend ==
    lastOp \in StrokeUps /\ ~threw =>
        LET strokes == pages[currentPageIndex].strokes
        IN  /\ Len(undoStack) > 0
            /\ undoStack[Len(undoStack)] =
                    [pageIndex |-> currentPageIndex,
                     strokes |-> Some(Serialize(SubSeq(strokes, 1, Len(strokes) - 1)))]

SameHistory(a, b) ==
    /\ [i \in 1..Len(a.pages) |-> Serialize(a.pages[i].strokes)]
            = [i \in 1..Len(b.pages) |-> Serialize(b.pages[i].strokes)]
    /\ a.undoStack = b.undoStack
    /\ a.redoStack = b.redoStack

C8_UndoRedoInverse ==
    /\ Len(undoStack) > 0 => SameHistory(Redo(Undo(App)), App)
    /\ Len(redoStack) > 0 => SameHistory(Undo(Redo(App)), App)
    /\ Len(undoStack) = 0 => Undo(App) = App
    /\ Len(redoStack) = 0 => Redo(App) = App

C8_Witness ==
    /\ lastOp = "redo"
    /\ Len(undoStack) > 0
    /\ Len(redoStack) > 0
    /\ Len(pages[1].strokes) > 0

\* C10: after every pointer-down and every pointer-up or pointer-cancel the
\* gesture mode is 'draw' with exactly one active pointer and 'nav' with two
\* or more.
PointerOps ==
    {"pointerdown"} \cup { k \o ":" \o f : k \in {"pointerup", "pointercancel"},
                                           f \in {"stroke", "erase", "lasso", "move", "resize", "none"} }

C10_ModeFollowsPointerCount ==
    lastOp \in PointerOps =>
        /\ Len(activePointers) = 1 => gestureMode = "draw"
        /\ Len(activePointers) >= 2 => gestureMode = "nav"


PointLists(strokes) == [i \in 1..Len(strokes) |-> strokes[i].points]

\* C3: an eraser gesture that removed or split a stroke leaves, at its
\* pointer-up, the page's stroke list from before the gesture as the newest
\* undo entry, so that one undo restores the erased ink.
C3_EraseRecorded ==
    lastOp = "pointerup:erase" /\ ~IsNull(preInteractionState)
    /\ PointLists(pages[currentPageIndex].strokes) # PointLists(Val(preInteractionState)) =>
        /\ Len(undoStack) > 0
        /\ undoStack[Len(undoStack)] =
                [pageIndex |-> currentPageIndex, strokes |-> preInteractionState]
        /\ Serialize(Undo(App).pages[currentPageIndex].strokes) = Val(preInteractionState)

\* C6: every step other than undo and redo that changes the stroke list of a
\* page leaves the redo stack empty.
C6_CommitClearsRedo ==
    [][PageLists' # PageLists /\ lastOp' \notin {"undo", "redo", "addpage"}
            => redoStack' = << >>]_vars


\* whether in state s the newest undo entry is (currentPageIndex, the page's
\* list in `before`) and one undo gives every page its list in `before`
Restores(s, before) ==
    /\ Len(s.undoStack) > 0
    /\ s.undoStack[Len(s.undoStack)] =
            [pageIndex |-> s.currentPageIndex, strokes |-> Some(before[s.currentPageIndex])]
    /\ before = [i \in 1..Len(s.pages) |-> Serialize(Undo(s).pages[i].strokes)]

\* C4: deleting or cutting a non-empty selection pushes the page's stroke
\* list from before the deletion, so that one undo right after it restores
\* the deleted strokes.
C4_DeleteRecorded ==
    [][lastOp' \in {"delete", "cut"} /\ Len(selectedStrokes) > 0 /\ PageLists' # PageLists
            => Restores(App', PageLists)]_vars

\* C5: a move or resize gesture that changed the strokes (and likewise a
\* paste of a non-empty clipboard and a duplicate of a non-empty selection)
\* leaves (currentPageIndex, the page's stroke list from before) as the
\* newest undo entry, and one undo brings every page back to its strokes
\* from before.
C5_GestureRecorded ==
    lastOp \in {"pointerup:move", "pointerup:resize"} /\ PageLists # atDown
        => Restores(App, atDown)

\* the part of C5 about the lasso menu and pasteSelection
C5_MenuRecorded ==
    [][\/ lastOp' = "duplicate" /\ Len(selectedStrokes) > 0
       \/ lastOp' = "paste" /\ ~IsNull(clipboard) /\ Len(Val(clipboard)) > 0
            => Restores(App', PageLists)]_vars

\* C9: the undo stack and the redo stack never hold more than 50 entries, and
\* a push (every stroke commit makes one) onto a full undo stack evicts the
\* oldest entry and keeps the others in order below the new one.
C9_HistoryBounded ==
    /\ [](Len(undoStack) <= UndoLimit /\ Len(redoStack) <= UndoLimit)
    /\ [][/\ lastOp' \notin {"undo", "redo"}
          /\ \/ undoStack' # undoStack
             \/ lastOp' \in StrokeUps /\ PageLists' # PageLists
          => /\ Len(undoStack') = IF Len(undoStack) < UndoLimit
                                  THEN Len(undoStack) + 1 ELSE UndoLimit
             /\ SubSeq(undoStack', 1, Len(undoStack') - 1) =
                    IF Len(undoStack) < UndoLimit THEN undoStack ELSE Tail(undoStack)]_vars

C9_Witness ==
    /\ Len(undoStack) = UndoLimit
    /\ undoStack[1].strokes # Some(<< >>)
    /\ lastOp = "pointerup:stroke"

\* the identifiers the active-pointer map holds
ActiveIds == { activePointers[i].id : i \in 1..Len(activePointers) }

\* C11: the active-pointer map holds exactly the pointers that are pressed,
\* so it is empty whenever no pointer is pressed.
C11_MapHoldsPressed == ActiveIds = pressed

\* C12: while a freehand stroke is in progress, a move event of a pointer
\* other than the one whose pointer-down opened the stroke appends no point
\* to it.
C12_OnlyOpenerAppends ==
    [][/\ lastOp' = "pointermove"
       /\ isDrawing /\ ~IsNull(currentStroke) /\ tool \notin {"eraser", "laser"}
       /\ mover' # opener
       => /\ ~IsNull(currentStroke')
          /\ Val(currentStroke').points = Val(currentStroke).points]_vars

----------------------------------------------------------------------------
(* Properties of the eraser                                                *)

\* the current page's stroke list
PageStrokes == pages[currentPageIndex].strokes

\* the eraser's latest motion segment in the stroke it is drawing
MotionFrom(stroke) == stroke.points[Len(stroke.points) - 1]
MotionTo(stroke) == stroke.points[Len(stroke.points)]

\* whether segment a-b lies within the radius rnum/rden of segment ep1-ep2
Within(ep1, ep2, a, b, rnum, rden) ==
    FracBelow(SegmentsDistanceSq(ep1, ep2, a, b), rnum, rden)

\* the segments of a point list that the motion segment of `eraser` hits
HitSegments(pts, eraser, width) ==
    { i \in 1..(Len(pts) - 1) :
        Within(MotionFrom(eraser), MotionTo(eraser), pts[i], pts[i + 1], width, 2) }

\* a move of the eraser that has a motion segment
EraserStep ==
    /\ lastOp' = "pointermove"
    /\ tool = "eraser" /\ isDrawing /\ ~IsNull(currentStroke)
    /\ ~IsNull(currentStroke') /\ Len(Val(currentStroke').points) >= 2

\* C13: in whole-stroke mode an eraser move step removes from the current
\* page exactly the freehand strokes of two or more points that have a
\* segment within the eraser's radius (lineWidth/2) of the eraser's latest
\* motion segment, and keeps every other stroke in its original order; the
\* stroke (0,0)-(100,0) crossed by the motion segment (50,-2)-(50,2) with a
\* radius of 4 or more is removed.
C13_WholeErase ==
    /\ [][EraserStep /\ eraseEntireStroke =>
            LET before == PageStrokes
                after == PageStrokes'
                Gone(st) == /\ st.type = "freehand"
                            /\ Len(st.points) >= 2
                            /\ HitSegments(st.points, Val(currentStroke'), lineWidth) # {}
                keep == { k \in 1..Len(before) : ~Gone(before[k]) }
            IN  /\ Len(after) = Cardinality(keep)
                /\ \A k \in keep : after[Cardinality({ j \in keep : j <= k })] = before[k]
                /\ UNCHANGED currentPageIndex]_vars
    /\ [](/\ lastOp = "pointermove" /\ tool = "eraser" /\ isDrawing /\ eraseEntireStroke
          /\ ~IsNull(currentStroke)
          /\ Val(currentStroke).points = << Pt(50, 0 - 2), Pt(50, 2) >>
          /\ lineWidth >= 8
          => \A k \in 1..Len(PageStrokes) :
                PageStrokes[k].points # << Pt(0, 0), Pt(100, 0) >>)

\* the eraser crossed the line at x = 50 and passed the dot, the text and
\* the image, which stay
C13_Witness ==
    /\ lastOp = "pointermove" /\ tool = "eraser" /\ isDrawing /\ eraseEntireStroke
    /\ ~IsNull(currentStroke)
    /\ Val(currentStroke).points = << Pt(50, 0 - 2), Pt(50, 2) >>
    /\ \E k \in 1..Len(atDown[1]) : atDown[1][k] = StoredLine
    /\ Len(PageStrokes) = Len(atDown[1]) - 1
    /\ Len(PageStrokes) > 0

\* the strokes of a list that have a segment
WithSegments(strokes) == SelectSeqIdx(strokes, LAMBDA k : Len(strokes[k].points) >= 2)

\* C14: in split mode the straight stroke (0,0)-(100,0) of width 10, crossed
\* by the motion segment (50,-2)-(50,2) of an eraser of radius 4 or more, is
\* replaced by exactly two strokes, the left one ending before the hit point
\* and the right one starting after it, in that order.
C14_SplitInTwo ==
    [][/\ EraserStep /\ ~eraseEntireStroke
       /\ Val(currentStroke').points = << Pt(50, 0 - 2), Pt(50, 2) >>
       /\ lineWidth >= 8
       /\ Serialize(WithSegments(PageStrokes)) = << StoredLine >>
       => LET parts == WithSegments(PageStrokes')
          IN  /\ Len(parts) = 2
              /\ parts[1].points[1] = Pt(0, 0)
              /\ parts[1].points[Len(parts[1].points)].x < 50
              /\ parts[2].points[1].x > 50
              /\ parts[2].points[Len(parts[2].points)] = Pt(100, 0)]_vars

\* a stroke without its identity
Mask(st) == IF st.type = "freehand" THEN [st EXCEPT !.id = 0, !.ref = 0]
            ELSE [st EXCEPT !.ref = 0]

\* the maximal runs a..b of consecutive segments of an n-point list that are
\* not in `hits`, in increasing order
Runs(n, hits) ==
    LET all == { r \in (1..(n - 1)) \X (1..(n - 1)) :
                   /\ r[1] <= r[2]
                   /\ \A i \in r[1]..r[2] : i \notin hits
                   /\ r[1] = 1 \/ (r[1] - 1) \in hits
                   /\ r[2] = n - 1 \/ (r[2] + 1) \in hits }
    IN  [j \in 1..Cardinality(all) |->
            CHOOSE r \in all : Cardinality({ q \in all : q[1] < r[1] }) = j - 1]

\* what split mode leaves of a stroke, without identities
Pieces(st, eraser, width) ==
    IF st.type = "freehand" /\ Len(st.points) >= 2
    THEN LET runs == Runs(Len(st.points), HitSegments(st.points, eraser, width))
         IN  [j \in 1..Len(runs) |->
                [Mask(st) EXCEPT !.points = SubSeq(st.points, runs[j][1], runs[j][2] + 1)]]
    ELSE << Mask(st) >>

\* C15, as the program has it: in split mode a freehand stroke is replaced,
\* in its place in the page, by the maximal runs of its consecutive segments
\* that are not hit, in the original order; each such sub-stroke keeps the
\* original point order, has at least two points and the original's
\* color, width, opacity and tool.  Only the hit segments are removed: an
\* endpoint of a hit segment stays in the sub-stroke of the neighbouring
\* segment when that one is not hit.
C15_SplitAtHits ==
    [][EraserStep /\ ~eraseEntireStroke =>
         LET before == PageStrokes
             after == PageStrokes'
         IN  /\ [i \in 1..Len(after) |-> Mask(after[i])] =
                    Flatten([k \in 1..Len(before) |->
                                Pieces(before[k], Val(currentStroke'), lineWidth)])
             /\ \A i \in 1..Len(after) :
                    after[i].ref \notin StrokeRefs(before) => Len(after[i].points) >= 2]_vars

\* the path of four points was hit in its middle segment only
C15_Witness ==
    /\ lastOp = "pointermove" /\ tool = "eraser" /\ isDrawing /\ ~eraseEntireStroke
    /\ \E k \in 1..Len(atDown[1]) : atDown[1][k] = StoredPath
    /\ \E k \in 1..(Len(PageStrokes) - 1) :
          /\ PageStrokes[k].points = << Pt(0, 0), Pt(30, 0) >>
          /\ PageStrokes[k + 1].points = << Pt(70, 0), Pt(100, 0) >>
          /\ PageStrokes[k].tool = "highlighter" /\ PageStrokes[k + 1].width = 15

\* C15, as stated: both endpoints of every hit segment are absent from all
\* the sub-strokes that replace the stroke.
C15_EndpointsDropped ==
    [][/\ EraserStep /\ ~eraseEntireStroke
       /\ Len(WithSegments(PageStrokes)) = 1
       => LET st == WithSegments(PageStrokes)[1]
              parts == WithSegments(PageStrokes')
          IN  \A i \in HitSegments(st.points, Val(currentStroke'), lineWidth) :
                \A j \in 1..Len(parts) :
                    /\ st.points[i] \notin Range(parts[j].points)
                    /\ st.points[i + 1] \notin Range(parts[j].points)]_vars

\* twice the signed area of the triangle a, b, c
Orient(a, b, c) == (b.x - a.x) * (c.y - a.y) - (b.y - a.y) * (c.x - a.x)

\* segments p1-p2 and p3-p4 cross: each has its endpoints strictly on the
\* two sides of the other's line
Crossing(p1, p2, p3, p4) ==
    /\ (Orient(p1, p2, p3) > 0 /\ Orient(p1, p2, p4) < 0)
         \/ (Orient(p1, p2, p3) < 0 /\ Orient(p1, p2, p4) > 0)
    /\ (Orient(p3, p4, p1) > 0 /\ Orient(p3, p4, p2) < 0)
         \/ (Orient(p3, p4, p1) < 0 /\ Orient(p3, p4, p2) > 0)

\* C16: segmentsDistance is the minimum distance between the two segments,
\* so it is 0 for an eraser motion segment and a stroke segment that cross,
\* and the crossing registers a hit whatever the eraser's radius.
C16_CrossingIsHit ==
    [][EraserStep =>
         LET eraser == Val(currentStroke')
         IN  \A k \in 1..Len(PageStrokes) :
               \A i \in 1..(Len(PageStrokes[k].points) - 1) :
                 LET a == PageStrokes[k].points[i]
                     b == PageStrokes[k].points[i + 1]
                 IN  Crossing(MotionFrom(eraser), MotionTo(eraser), a, b)
                       => /\ SegmentsDistanceSq(MotionFrom(eraser), MotionTo(eraser), a, b).n = 0
                          /\ EraserHits(App, MotionFrom(eraser), MotionTo(eraser), a, b)]_vars

\* the Text and Image strokes of a list, as the objects they are
Boxes(strokes) == SelectSeqIdx(strokes, LAMBDA k : IsBox(strokes[k]))

\* C17: no event of an eraser gesture, in whole-stroke or in split mode,
\* removes, splits or alters a Text or Image stroke: the Text and Image
\* strokes of every page stay the same objects with the same values in the
\* same order.
C17_BoxesImmune ==
    [][tool = "eraser"
       /\ lastOp' \in {"pointerdown", "pointermove", "pointerup:erase", "pointerup:none"}
       => /\ Len(pages') = Len(pages)
          /\ \A i \in 1..Len(pages) : Boxes(pages'[i].strokes) = Boxes(pages[i].strokes)]_vars

\* the eraser went across a text or an image and a stroke next to it, and
\* took the stroke
C17_Witness ==
    /\ lastOp = "pointermove" /\ tool = "eraser" /\ isDrawing
    /\ ~IsNull(currentStroke)
    /\ Val(currentStroke).points = << Pt(50, 0 - 2), Pt(50, 2) >>
    /\ Len(atDown[1]) = 2
    /\ Len(PageStrokes) = 1
    /\ Len(Boxes(PageStrokes)) = 1

----------------------------------------------------------------------------
(* Properties of the selection                                             *)

\* C18: every stroke the selection refers to is an element of the current
\* page's stroke list.
C18_SelectionOnPage == StrokeRefs(selectedStrokes) \subseteq StrokeRefs(PageStrokes)

\* the ray from p towards greater x crosses the edge a-b: the edge has one
\* end above the ray's line and the other on or below it, and p lies
\* strictly to the left of the edge, seen from its lower end to its upper
RayCrosses(p, a, b) ==
    LET lower == IF a.y > p.y THEN b ELSE a
        upper == IF a.y > p.y THEN a ELSE b
    IN  /\ upper.y > p.y /\ lower.y <= p.y
        /\ Orient(lower, upper, p) > 0

\* the edges of the closed polygon that the ray from p crosses
EdgesCrossed(p, poly) ==
    { i \in 1..Len(poly) : RayCrosses(p, poly[i], poly[IF i = Len(poly) THEN 1 ELSE i + 1]) }

Square == << Pt(0, 0), Pt(100, 0), Pt(100, 100), Pt(0, 100) >>

\* C19: isPointInLasso(p, poly) is even-odd ray casting: it returns true
\* exactly when the horizontal ray from p crosses an odd number of the
\* polygon's edges; for the square (0,0)-(100,0)-(100,100)-(0,100) it
\* returns true for (50,50) and false for (150,150).
C19_EvenOdd ==
    call.fn = "isPointInLasso" /\ ~IsNull(call.out) =>
        /\ Val(call.out) = (Cardinality(EdgesCrossed(call.p, call.poly)) % 2 = 1)
        /\ call.poly = Square /\ call.p = Pt(50, 50) => Val(call.out) = TRUE
        /\ call.poly = Square /\ call.p = Pt(150, 150) => Val(call.out) = FALSE

\* the square's centre: its ray crosses the one edge (100,0)-(100,100)
C19_Witness ==
    /\ call.fn = "isPointInLasso" /\ ~IsNull(call.out)
    /\ call.poly = Square /\ call.p = Pt(50, 50)
    /\ EdgesCrossed(call.p, call.poly) = {2}
    /\ Val(call.out) = TRUE

\* a tap at c hits the stroke: a Text or Image whose bounding box holds c, a
\* Freehand stroke with a segment less than TapTolerance from c
TapOn(st, c) ==
    IF st.type \in {"text", "image"}
    THEN /\ st.x <= c.x /\ c.x <= st.x + st.w
         /\ st.y <= c.y /\ c.y <= st.y + st.h
    ELSE \E j \in 1..(Len(st.points) - 1) :
            Within(c, c, st.points[j], st.points[j + 1], TapTolerance, 1)

\* C20: a lasso gesture of at most 5 points is a tap at its first point: the
\* selection becomes exactly the last committed stroke that the tap hits,
\* and when the tap hits no stroke the selection becomes empty and the
\* lasso path is cleared.
C20_TapSelectsTopmost ==
    [][/\ lastOp' \in {"pointerup:lasso", "windowup:lasso"}
       /\ ~IsNull(lassoPath) /\ Len(Val(lassoPath)) <= LassoTapMax
       => LET c == Val(lassoPath)[1]
              hits == { i \in 1..Len(PageStrokes) : TapOn(PageStrokes[i], c) }
          IN  IF hits = {}
              THEN selectedStrokes' = << >> /\ IsNull(lassoPath')
              ELSE /\ Len(selectedStrokes') = 1
                   /\ \E i \in hits :
                        /\ selectedStrokes'[1] = PageStrokes[i]
                        /\ \A k \in hits : k <= i
                   /\ PageStrokes' = PageStrokes]_vars

\* a tap that hits both strokes of the page took the later one
C20_Witness ==
    /\ lastOp = "pointerup:lasso"
    /\ Len(PageStrokes) = 2
    /\ TapOn(PageStrokes[1], lastCoords[1]) /\ TapOn(PageStrokes[2], lastCoords[1])
    /\ selectedStrokes = << PageStrokes[2] >>

----------------------------------------------------------------------------
(* Properties of the gestures on a selection                                *)

\* a stroke displaced by d: its anchor for a text or an image, every one of
\* its points otherwise
Displaced(st, d) ==
    IF IsBox(st) THEN [st EXCEPT !.x = st.x + d.x, !.y = st.y + d.y]
    ELSE [st EXCEPT !.points =
             [i \in 1..Len(st.points) |-> Pt(st.points[i].x + d.x, st.points[i].y + d.y)]]

DisplacedPath(path, d) ==
    IF IsNull(path) THEN Null
    ELSE Some([i \in 1..Len(Val(path)) |-> Pt(Val(path)[i].x + d.x, Val(path)[i].y + d.y)])

\* the pages' strokes are `before` with the selected ones displaced by d
SelectionDisplaced(before, after, d) ==
    /\ Len(after) = Len(before)
    /\ \A i \in 1..Len(before) :
          /\ Len(after[i]) = Len(before[i])
          /\ \A k \in 1..Len(before[i]) :
                after[i][k] = IF pages[i].strokes[k].ref \in StrokeRefs(selectedStrokes)
                              THEN Displaced(before[i][k], d)
                              ELSE before[i][k]

\* C21: while the selection is moved, a pointer sample displaces every
\* selected stroke and every lasso point by the sample's distance from the
\* previous pointer position; when the gesture ends they are displaced by
\* the last pointer position minus the pointer-down position; every other
\* stroke stays as it was
C21_MoveTracksPointer ==
    [][ /\ lastOp' = "pointermove" /\ tool = "lasso" /\ isMoving =>
            LET d == Pt(Val(moveStart').x - Val(moveStart).x,
                        Val(moveStart').y - Val(moveStart).y)
            IN  /\ SelectionDisplaced([i \in 1..Len(pages) |-> pages[i].strokes],
                                      [i \in 1..Len(pages') |-> pages'[i].strokes], d)
                /\ selectedStrokes' =
                      [k \in 1..Len(selectedStrokes) |-> Displaced(selectedStrokes[k], d)]
                /\ lassoPath' = DisplacedPath(lassoPath, d)
        /\ lastOp' = "pointerup:move" /\ tool = "lasso" =>
            LET d == Pt(Val(moveStart).x - Val(lastCoords).x,
                        Val(moveStart).y - Val(lastCoords).y)
            IN  /\ SelectionDisplaced(atDown, PageLists', d)
                /\ lassoPath' = DisplacedPath(downLasso, d) ]_vars

\* a text and a pen stroke, selected with a loop, have been moved
C21_Witness ==
    /\ lastOp = "pointerup:move"
    /\ moveStart # lastCoords
    /\ ~IsNull(lassoPath)
    /\ \E i, k \in 1..Len(selectedStrokes) :
          /\ IsBox(selectedStrokes[i]) /\ ~IsBox(selectedStrokes[k])
          /\ selectedStrokes[i].ref \in PageRefs(pages)
          /\ selectedStrokes[k].ref \in PageRefs(pages)

\* the factor of a resize step that drags the handle by (dx, dy), as the
\* pair << numerator, denominator >>: the mean of the width's and the
\* height's factors (a tenth for a side dragged to nothing or beyond), and a
\* tenth at least
StepFactor(b, dx, dy) ==
    LET sx == IF b.w + dx > 0 THEN << b.w + dx, b.w >> ELSE << 1, 10 >>
        sy == IF b.h + dy > 0 THEN << b.h + dy, b.h >> ELSE << 1, 10 >>
        mean == Frac(sx[1] * sy[2] + sy[1] * sx[2], 2 * sx[2] * sy[2])
    IN  IF 10 * mean.n < mean.d THEN << 1, 10 >> ELSE << mean.n, mean.d >>

\* the point `after` is `before` with its offset from `origin` multiplied by k
ScaledFrom(origin, before, after, k) ==
    /\ (after.x - origin.x) * k[2] = (before.x - origin.x) * k[1]
    /\ (after.y - origin.y) * k[2] = (before.y - origin.y) * k[1]

StrokeScaledFrom(origin, before, after, k) ==
    IF IsBox(before)
    THEN IsBox(after) /\ ScaledFrom(origin, Pt(before.x, before.y), Pt(after.x, after.y), k)
    ELSE /\ Len(after.points) = Len(before.points)
         /\ \A i \in 1..Len(before.points) :
               ScaledFrom(origin, before.points[i], after.points[i], k)

\* the resize branch of the move handler is the one that runs
ResizeStep ==
    /\ lastOp' = "pointermove" /\ isResizing
    /\ ~isDrawing /\ ~isLassoing /\ ~isMoving /\ gestureMode # "nav" /\ activeCanvas # 0

\* C22: a resize step multiplies the offset of every point and anchor of the
\* selected strokes and of the lasso outline from the top-left corner of the
\* selection's bounds by the one factor max(0.1, (sx + sy) / 2); the corner
\* stays where it is and the bounds shrink to a tenth at most; a step on
\* bounds of no width or no height changes nothing
C22_ResizeAboutCorner ==
    [][ ResizeStep /\ ~IsNull(BoundsOf(selectedStrokes)) =>
            LET b == Val(BoundsOf(selectedStrokes))
                after == Val(BoundsOf(selectedStrokes'))
                k == StepFactor(b, Val(moveStart').x - Val(moveStart).x,
                                Val(moveStart').y - Val(moveStart).y)
            IN  IF b.w = 0 \/ b.h = 0
                THEN UNCHANGED << pages, selectedStrokes, lassoPath, moveStart,
                                  hasChanged, undoStack, redoStack >>
                ELSE /\ Len(selectedStrokes') = Len(selectedStrokes)
                     /\ \A i \in 1..Len(selectedStrokes) :
                           StrokeScaledFrom(b, selectedStrokes[i], selectedStrokes'[i], k)
                     /\ \A i \in 1..Len(pages) : \A j \in 1..Len(pages[i].strokes) :
                           pages[i].strokes[j].ref \in StrokeRefs(selectedStrokes) =>
                              StrokeScaledFrom(b, pages[i].strokes[j],
                                               pages'[i].strokes[j], k)
                     /\ IsNull(lassoPath) = IsNull(lassoPath')
                     /\ ~IsNull(lassoPath) =>
                           /\ Len(Val(lassoPath')) = Len(Val(lassoPath))
                           /\ \A i \in 1..Len(Val(lassoPath)) :
                                 ScaledFrom(b, Val(lassoPath)[i], Val(lassoPath')[i], k)
                     /\ after.x = b.x /\ after.y = b.y
                     /\ 10 * after.w >= b.w /\ 10 * after.h >= b.h ]_vars

\* a text and a pen stroke, selected with a loop, have been resized to a
\* tenth by a handle dragged far beyond the top-left corner
C22_Witness ==
    /\ lastOp = "pointermove" /\ isResizing /\ hasChanged
    /\ Val(moveStart).x < Val(lastCoords).x - 500
    /\ PageLists # atDown
    /\ \E i, k \in 1..Len(selectedStrokes) :
          /\ IsBox(selectedStrokes[i]) /\ ~IsBox(selectedStrokes[k])
          /\ selectedStrokes[i].ref \in PageRefs(pages)
          /\ selectedStrokes[k].ref \in PageRefs(pages)

\* C23: a move step whose sample is where the pointer was before, and a
\* resize step whose handle is dragged by (0,0), leave the selected strokes
\* and the lasso outline as they are
C23_IdentityStep ==
    [][ /\ lastOp' = "pointermove" /\ moveStart' = moveStart
        /\ \/ tool = "lasso" /\ isMoving /\ ~isLassoing /\ ~isDrawing
           \/ ResizeStep
        => UNCHANGED << pages, selectedStrokes, lassoPath >> ]_vars

\* the handle of a selection of a text and a pen stroke has been dragged by
\* (0,0): the step has run with the factor 1
C23_Witness ==
    /\ lastOp = "pointermove" /\ isResizing /\ hasChanged
    /\ moveStart = lastCoords
    /\ Val(BoundsOf(selectedStrokes)).w > 0 /\ Val(BoundsOf(selectedStrokes)).h > 0
    /\ \E i, k \in 1..Len(selectedStrokes) :
          /\ IsBox(selectedStrokes[i]) /\ ~IsBox(selectedStrokes[k])
          /\ selectedStrokes[i].ref \in PageRefs(pages)
          /\ selectedStrokes[k].ref \in PageRefs(pages)

\* C24: with nothing selected, a move or resize step, the end of a move or
\* resize gesture, and the menu's cut, copy, delete and duplicate leave the
\* pages' stroke lists, the undo stack, the redo stack and the clipboard as
\* they are, and nothing is thrown
C24_EmptySelectionNoOp ==
    [][ /\ Len(selectedStrokes) = 0
        /\ \/ lastOp' \in {"cut", "copy", "delete", "duplicate"}
           \/ /\ lastOp' \in {"pointermove", "pointerup:move", "pointerup:resize"}
              /\ tool = "lasso" /\ (isMoving \/ isResizing)
              /\ ~isLassoing /\ ~isDrawing
        => /\ PageLists' = PageLists
           /\ UNCHANGED << undoStack, redoStack, clipboard >>
           /\ ~threw' ]_vars

----------------------------------------------------------------------------
(* Properties of the persistence boundary                                   *)

\* the single empty page of a new notebook (line 1652)
DefaultPages == << [strokes |-> << >>, template |-> "plain"] >>

\* C25: when the stored data of the notebook that is opened holds no valid
\* page list, the page list in memory is a single empty default page
\* afterwards, and neither the opening nor the handler that runs next throws
C25_BadDataGivesDefault ==
    [][ /\ lastOp' = "open:invalid" => pages' = DefaultPages /\ ~threw'
        /\ lastOp = "open:invalid" => ~threw' ]_vars

----------------------------------------------------------------------------
(* Properties of the shape recognizer                                       *)

\* the points are the sampling of one ellipse, step by step
IsSampling(points) ==
    /\ Len(points) = Steps + 1
    /\ \A i \in 1..Len(points) : "step" \in DOMAIN points[i]
    /\ \A i \in 1..Len(points) :
          points[i] = EllipsePoint(points[1].c2, points[1].r4, i - 1)

\* five points: the corners of an axis-aligned rectangle, the first repeated
IsClosedRectangle(points) ==
    /\ Len(points) = 5
    /\ \A i \in 1..Len(points) : "x" \in DOMAIN points[i]
    /\ points[5] = points[1]
    /\ points[2].y = points[1].y /\ points[3].x = points[2].x
    /\ points[4].y = points[3].y /\ points[4].x = points[1].x

\* four points: three corners, the first repeated
IsClosedTriangle(points) ==
    /\ Len(points) = 4
    /\ \A i \in 1..Len(points) : "x" \in DOMAIN points[i]
    /\ points[4] = points[1]

\* the stroke committed by the step that ends a stroke
Committed == pages'[currentPageIndex].strokes[Len(pages'[currentPageIndex].strokes)]

\* C26: when a stroke ends, it is straightened exactly if the tool is
\* 'shape', or the tool is not the eraser and the pause before the release
\* exceeded the threshold; a straightened stroke has isShape = true and its
\* points are the sampling of an ellipse if the ellipse test passes, else a
\* closed rectangle of 5 points or a closed triangle of 4 points if the
\* path is closed, else the first and the last point; any other stroke is
\* committed as it was captured
C26_TriggerStraightens ==
    [][ /\ lastOp' \in {"pointerup:stroke", "pointerup:stroke:held"}
        /\ ~IsNull(currentStroke) /\ ~threw'
        => LET cs == Val(currentStroke)
               first == cs.points[1]
               last == cs.points[Len(cs.points)]
           IN  IF tool = "shape" \/ lastOp' = "pointerup:stroke:held"
               THEN /\ Committed.isShape
                    /\ IF IsEllipse(cs.points, ShapeBox(cs.points))
                       THEN IsSampling(Committed.points)
                       ELSE IF IsClosed(cs.points, ShapeBox(cs.points))
                       THEN \/ IsClosedRectangle(Committed.points)
                            \/ IsClosedTriangle(Committed.points)
                       ELSE Committed.points = << first, last >>
               ELSE Committed = cs ]_vars

\* Four times the squared cosine of step i of the sampling where it is
\* rational: at the multiples of 30 and of 45 degrees (steps of 5 degrees);
\* Null at the other steps, where it is irrational
CosSq4(i) ==
    LET k == i % 36
    IN  IF k = 0 THEN Some(4)
        ELSE IF k \in {6, 30} THEN Some(3)
        ELSE IF k \in {9, 27} THEN Some(2)
        ELSE IF k \in {12, 24} THEN Some(1)
        ELSE IF k = 18 THEN Some(0)
        ELSE Null

\* The sampled point p lies on the circle around half of c2 with radius a
\* quarter of r4: its squared distance from its centre is
\* rx^2 * cos^2 + ry^2 * (1 - cos^2), in quarters of r4
OnCircle(p, c2, r4) ==
    /\ p.c2 = c2
    /\ IF p.r4.x = p.r4.y THEN p.r4.x = r4
       ELSE /\ ~IsNull(CosSq4(p.step))
            /\ (Sq(p.r4.x) - Sq(p.r4.y)) * Val(CosSq4(p.step)) = 4 * (Sq(r4) - Sq(p.r4.y))

\* a stroke ends and goes through the recognizer's replacement
Recognized ==
    /\ lastOp' \in {"pointerup:stroke", "pointerup:stroke:held"}
    /\ ~IsNull(currentStroke) /\ ~threw'
    /\ tool = "shape" \/ lastOp' = "pointerup:stroke:held"
    /\ Len(Val(currentStroke).points) >= RecognizeMinPts

\* width and height of the bounding box differ by less than a fifth of the
\* larger
NearlySquareBox(b) == 5 * Abs(b.w - b.h) < Max2(b.w, b.h)

\* C27 as stated: a recognized path whose average radial deviation is below
\* 0.12 is replaced by points that all lie on the circle around the centre
\* of the bounding box with the radius (w + h) / 4
C27_OnOneCircle ==
    [][ Recognized /\ IsEllipse(Val(currentStroke).points, ShapeBox(Val(currentStroke).points))
        => LET b == ShapeBox(Val(currentStroke).points)
           IN  /\ IsSampling(Committed.points)
               /\ \A i \in 1..Len(Committed.points) :
                     OnCircle(Committed.points[i], ShapeCenter2(b), b.w + b.h) ]_vars

\* C27, amended: a recognized path whose average radial deviation is below
\* 0.12 is replaced by 73 points around the centre of its bounding box; they
\* all lie on the circle of radius (w + h) / 4 when width and height of the
\* box differ by less than a fifth of the larger, and otherwise they are
\* points of the ellipse with the radii w / 2 and h / 2, not all on one circle
C27_CircleWhenNearlySquare ==
    [][ Recognized /\ IsEllipse(Val(currentStroke).points, ShapeBox(Val(currentStroke).points))
        => LET b == ShapeBox(Val(currentStroke).points)
           IN  /\ IsSampling(Committed.points)
               /\ IF NearlySquareBox(b)
                  THEN \A i \in 1..Len(Committed.points) :
                          OnCircle(Committed.points[i], ShapeCenter2(b), b.w + b.h)
                  ELSE /\ \A i \in 1..Len(Committed.points) :
                             Committed.points[i]
                                 = EllipsePoint(ShapeCenter2(b), Pt(2 * b.w, 2 * b.h), i - 1)
                       /\ \E i \in 1..Len(Committed.points) :
                             ~OnCircle(Committed.points[i], ShapeCenter2(b),
                                       Committed.points[1].r4.x) ]_vars

\* a ring 110 wide and 100 high, drawn with the pen and held, has been
\* replaced by the circle of radius 52.5
C27_Witness ==
    /\ lastOp = "pointerup:stroke:held"
    /\ Len(pages[1].strokes) = 1
    /\ pages[1].strokes[1].isShape
    /\ pages[1].strokes[1].tool = "pen"
    /\ IsSampling(pages[1].strokes[1].points)
    /\ pages[1].strokes[1].points[1].r4 = Pt(210, 210)

----------------------------------------------------------------------------
(* Properties of the viewport scale                                         *)

FracLeq(a, b) == a.n * b.d <= b.n * a.d

\* the bound of the range nearest to the requested scale
NearestInRange(r) ==
    IF FracLess(r, ZoomMin) THEN ZoomMin ELSE IF FracLess(ZoomMax, r) THEN ZoomMax ELSE r

\* the scale times num / den
ScaleTimes(num, den) == Frac(scale.n * num, scale.d * den)

\* the distance of the first two pointers of the map
FingerDist(ap) == IF Len(ap) < 2 THEN 0 ELSE Hypot(ap[1].x - ap[2].x, ap[1].y - ap[2].y)

\* a move of one of two or more pointers in navigation mode
PinchStep == lastOp' = "pointermove" /\ gestureMode = "nav" /\ Len(activePointers) >= 2

----------------------------------------------------------------------------
(* Properties of the capture of a stroke                                    *)

\* the jitter threshold of a tool
Epsilon(t) == IF t = "highlighter" THEN 3 ELSE 1

\* p and q are more than eps apart
Apart(p, q, eps) == Sq(p.x - q.x) + Sq(p.y - q.y) > Sq(eps)

\* every two consecutive points are more than eps apart
WellSpaced(points, eps) ==
    \A i \in 1..(Len(points) - 1) : Apart(points[i], points[i + 1], eps)

\* C29: a move event of a stroke being captured appends the point halfway
\* between the last stored point and the raw position if that point is more
\* than epsilon (3 for the highlighter, 1 for the other tools) from the
\* last stored point, and appends nothing otherwise; every two consecutive
\* points of the stroke in progress, and of a stroke committed without
\* shape recognition, are more than epsilon apart
C29_JitterFiltered ==
    [][ /\ ~IsNull(sample') /\ ~IsNull(currentStroke)
           => LET pts == Val(currentStroke).points
                  last == pts[Len(pts)]
                  raw == Val(sample')
                  smoothed == Pt((last.x + raw.x) \div 2, (last.y + raw.y) \div 2)
              IN  /\ (last.x + raw.x) % 2 = 0 /\ (last.y + raw.y) % 2 = 0
                  /\ Val(currentStroke').points =
                         IF Apart(smoothed, last, Epsilon(tool)) THEN Append(pts, smoothed)
                         ELSE pts
        /\ ~IsNull(currentStroke') /\ isDrawing'
           => WellSpaced(Val(currentStroke').points, Epsilon(tool'))
        /\ lastOp' = "pointerup:stroke" /\ tool # "shape" /\ ~IsNull(currentStroke) /\ ~threw'
           => /\ Committed.points = Val(currentStroke).points
              /\ WellSpaced(Committed.points, Epsilon(tool)) ]_vars

\* the highlighter has stored a second point, and the tremor that followed,
\* 3 from that point after the blend, was not stored
C29_Witness ==
    /\ lastOp = "pointermove" /\ tool = "highlighter"
    /\ ~IsNull(sample) /\ ~IsNull(currentStroke)
    /\ Len(Val(currentStroke).points) >= 2
    /\ Val(sample).x = Val(currentStroke).points[Len(Val(currentStroke).points)].x + 6
    /\ Val(sample).y = Val(currentStroke).points[Len(Val(currentStroke).points)].y

----------------------------------------------------------------------------
(* Properties of the render loop                                            *)

\* no point on the trail and no frame requested
LoopStopped == laserTrail = << >> /\ frames = 0

----------------------------------------------------------------------------
(* Properties of the pages overview and of the history across pages        *)

\* C38: reorderPage(from, to) puts the page that was at index from at index
\* to and keeps the other pages in their order, and currentPageIndex
\* designates afterwards the page it designated before; deletePage(i)
\* leaves a notebook of one page as it is and removes page i otherwise, and
\* currentPageIndex designates afterwards the page it designated before if
\* that page is not the deleted one
C38_PagesKeepTheirPlace ==
    [][ /\ \A f, t \in 1..Len(pages) :
              lastOp' = ReorderOp(f, t)
              => /\ pages'[t] = pages[f]
                 /\ RemoveAt(pages', t) = RemoveAt(pages, f)
                 /\ pages'[currentPageIndex'] = pages[currentPageIndex]
        /\ \A i \in 1..Len(pages) :
              lastOp' = DeletePageOp(i)
              => /\ Len(pages) = 1 => pages' = pages
                 /\ Len(pages) > 1 => pages' = RemoveAt(pages, i)
                 /\ Len(pages') >= 1
                 /\ i # currentPageIndex \/ Len(pages) = 1
                    => pages'[currentPageIndex'] = pages[currentPageIndex] ]_vars

\* the first page has been dragged behind the last one while the second
\* page was the current one: the dotted page is now the first and it is
\* the current page still
C38_Witness ==
    /\ lastOp = ReorderOp(1, 3)
    /\ Len(pages) = 3
    /\ pages[1].template = "dotted" /\ pages[2].template = "grid" /\ pages[3].template = "plain"
    /\ currentPageIndex = 1

\* the entries of a history stack that belong to other pages than page q
EntriesOfOthers(stack, q) == SelectSeq(stack, LAMBDA a : a.pageIndex # q)

\* C31: the history of every page is its own: an undo or a redo changes the
\* stroke list of no page but the current one, and a pointer-up that
\* commits a change to the current page leaves the entries of the other
\* pages in both history stacks as they were
C31_PerPageHistory ==
    [][ /\ lastOp' \in {"undo", "redo"}
           => \A i \in 1..Len(pages) :
                 i # currentPageIndex => pages'[i].strokes = pages[i].strokes
        /\ lastOp' \in StrokeUps /\ PageLists' # PageLists
           => /\ EntriesOfOthers(undoStack', currentPageIndex)
                    = EntriesOfOthers(undoStack, currentPageIndex)
              /\ EntriesOfOthers(redoStack', currentPageIndex)
                    = EntriesOfOthers(redoStack, currentPageIndex) ]_vars

\* C33: an undo or a redo does not throw, and the stroke list it gives to a
\* page is one that this page has had since the notebook was opened (the
\* pages of the notebook are told apart by their templates)
C33_HistoryHitsItsPage ==
    [][ lastOp' \in {"undo", "redo"}
        => /\ ~threw'
           /\ Len(pages') = Len(pages)
           /\ \A i \in 1..Len(pages) :
                 Serialize(pages'[i].strokes) # Serialize(pages[i].strokes)
                 => Serialize(pages'[i].strokes) \in had[pages[i].template] ]_vars

----------------------------------------------------------------------------
(* Properties of the library                                                *)

\* C37: there is always a page, and currentPageIndex designates one of the
\* pages (indices from 1 here)
C37_CurrentPageExists ==
    /\ Len(pages) > 0
    /\ currentPageIndex \in 1..Len(pages)

\* C39: the store holds nothing under the key of a notebook that deleteItem
\* has deleted
C39_DeletedStaysDeleted == \A id \in deleted : IsNull(store[id])

----------------------------------------------------------------------------
(* Properties of the palm guard and of the pointer sessions                *)

\* the step is a pointer-down below the guard line
IsPalmDown ==
    /\ lastOp' = "pointerdown"
    /\ \E i \in 1..Len(activePointers') :
          /\ activePointers'[i].id \in pressed' \ pressed
          /\ activePointers'[i].y > PalmGuardY

\* C32: a pointer-down below the guard line starts no interaction, leaves
\* the gesture mode as it was, and leaves the interaction of another
\* pointer (its flags, the stroke in progress, the lasso path, the
\* selection) and the pages as they were
C32_PalmIgnored ==
    [][ IsPalmDown
        => UNCHANGED << isDrawing, isLassoing, isMoving, isResizing, gestureMode,
                        currentStroke, lassoPath, selectedStrokes, pages >> ]_vars

\* C34: a pointer-up that ends no interaction (the pointer-down was rejected
\* by the palm guard or taken as a navigation pointer, or there was none on
\* the canvas) leaves both history stacks as they were
C34_IdleUpPushesNothing ==
    [][ lastOp' \in {"pointerup:none", "pointercancel:none", "windowup:none"}
        => UNCHANGED << undoStack, redoStack >> ]_vars

\* the interaction flags that are set
FlagsSet ==
    { f \in {"isDrawing", "isLassoing", "isMoving", "isResizing"} :
        \/ f = "isDrawing" /\ isDrawing
        \/ f = "isLassoing" /\ isLassoing
        \/ f = "isMoving" /\ isMoving
        \/ f = "isResizing" /\ isResizing }

\* C35: at most one of the flags isDrawing, isLassoing, isMoving and
\* isResizing is set, none is set while no pointer is pressed, and a move
\* event that arrives while no pointer is pressed changes no page, not the
\* selection and not the lasso path
C35_FlagsFollowPointers ==
    /\ [](Cardinality(FlagsSet) <= 1 /\ (pressed = {} => FlagsSet = {}))
    /\ [][ lastOp' = "pointermove" /\ pressed = {}
           => UNCHANGED << pages, selectedStrokes, lassoPath >> ]_vars

----------------------------------------------------------------------------
(* Properties of the lasso path                                             *)

\* the names lastOp gives to the events the pointer handlers take
PointerHandlerOps ==
    PointerOps \cup {"pointermove"}
        \cup { "windowup:" \o f : f \in {"stroke", "erase", "lasso", "move", "none"} }

\* C36: the lasso path is a point list whenever it is read: while isLassoing
\* is set, and when a pointer goes down with the lasso tool on a selection
\* that is not empty; and no pointer handler throws
C36_LassoPathReadable ==
    /\ [](isLassoing => ~IsNull(lassoPath))
    /\ [][ /\ lastOp' = "pointerdown" /\ tool = "lasso" /\ Len(selectedStrokes) > 0
              => ~IsNull(lassoPath)
           /\ lastOp' \in PointerHandlerOps => ~threw' ]_vars

----------------------------------------------------------------------------
(* Properties of the navigation gesture                                     *)

\* C40: a move event in gesture mode 'nav' leaves the pages, the stroke in
\* progress, the selection, the lasso path, both history stacks and the
\* interaction flags as they were (it changes the scroll position, the
\* scale and the recorded pointer positions only)
C40_NavMovesOnlyView ==
    [][ lastOp' = "pointermove" /\ gestureMode = "nav"
        => UNCHANGED << pages, currentStroke, selectedStrokes, lassoPath,
                        undoStack, redoStack,
                        isDrawing, isLassoing, isMoving, isResizing,
                        hasChanged, preInteractionState, tool, currentPageIndex >> ]_vars

\* two fingers have spread on a page that holds a committed stroke: the
\* scale has changed, the stroke and its history entry are there
C40_Witness ==
    /\ lastOp = "pointermove" /\ gestureMode = "nav"
    /\ Len(activePointers) = 2
    /\ scale.n # scale.d
    /\ Len(pages[1].strokes) > 0
    /\ Len(undoStack) > 0

============================================================================
